---- MODULE Spec2Model ----
(***************************************************************************)
(* A model of the Bay Area Discounts mobile client: the API service       *)
(* (cache-backed fetch layer and the favorites store kept in AsyncStorage) *)
(* and the screens' handlers that drive it.                                *)
(*                                                                         *)
(* Every `await` of the source is a point where other callbacks may run,   *)
(* so every asynchronous function is modelled as a process whose steps     *)
(* are the synchronous blocks between two awaits.                          *)
(***************************************************************************)
EXTENDS Integers, Sequences, FiniteSets, TLC

(***************************************************************************)
(* Bounds of the model.                                                    *)
(***************************************************************************)
\* Number of clock advances in a behaviour.
MaxTicks == 3
\* Number of search requests the SearchScreen issues in a behaviour.
MaxRequests == 2

(***************************************************************************)
(* Program constants.                                                      *)
(***************************************************************************)
\* const CACHE_DURATION = 24 * 60 * 60 * 1000; // 24 hours
CACHE_DURATION == 24 * 60 * 60 * 1000

\* const CACHE_KEYS = {...}
CACHE_KEYS ==
  [ PROGRAMS        |-> "@bay_area_discounts:programs",
    CATEGORIES      |-> "@bay_area_discounts:categories",
    ELIGIBILITY     |-> "@bay_area_discounts:eligibility",
    AREAS           |-> "@bay_area_discounts:areas",
    METADATA        |-> "@bay_area_discounts:metadata",
    FAVORITES       |-> "@bay_area_discounts:favorites",
    RECENT_SEARCHES |-> "@bay_area_discounts:recent_searches",
    FILTER_PRESETS  |-> "@bay_area_discounts:filter_presets" ]

\* const THEME_STORAGE_KEY = '@bay_area_discounts:theme_mode';
THEME_STORAGE_KEY == "@bay_area_discounts:theme_mode"

\* const CRASH_REPORTING_KEY = '@crash_reporting_enabled';
CRASH_REPORTING_KEY == "@crash_reporting_enabled"

\* Object.values(CACHE_KEYS)
CacheKeyValues == { CACHE_KEYS[f] : f \in DOMAIN CACHE_KEYS }

\* The keys the model's AsyncStorage holds: those of the API service, of the
\* theme context and of the crash-reporting preference.
StorageKeys == CacheKeyValues \cup {THEME_STORAGE_KEY, CRASH_REPORTING_KEY}

\* JavaScript's null, as a function result.
Null == "null"

\* JSON.stringify / JSON.parse: a stored item is a string, modelled as the
\* 1-tuple of the value it encodes; parsing unwraps it.
JSONstringify(v) == <<v>>
JSONparse(s) == s[1]

\* AsyncStorage.getItem resolves to null for a key that holds no item; the
\* absent item is the empty tuple, which no JSON string equals.
NoItem == <<>>

\* An item written as a plain string (the theme mode, enabled.toString()),
\* not as JSON text: like every item, the 1-tuple of its value.
PlainItem(str) == <<str>>

(***************************************************************************)
(* State.                                                                  *)
(***************************************************************************)
VARIABLES
  storage,   \* AsyncStorage: key -> stored item (a JSON string) or NoItem
  now,       \* Date.now()
  calls,     \* the fetchWithCache calls: call id -> its position and locals
  favCalls,  \* the addFavorite / removeFavorite calls: caller -> position and locals
  toggles,   \* the handleToggleFavorite invocations: handler -> position and locals
  browseFavorites,   \* BrowseScreen: the favorites state, queued updates applied
  browseRendered,    \* BrowseScreen: the favorites of the last render (the closure's)
  searchFavorites,   \* SearchScreen: the favorites state
  detailIsFavorite,  \* ProgramDetailScreen: the isFavorite state
  searchQuery,       \* SearchScreen: the text of the input
  debounce,          \* SearchScreen: the pending debounce timers, each with its query
  requestIdRef,      \* SearchScreen: requestIdRef.current
  requests,          \* SearchScreen: the performSearch calls, by request id
  programs,          \* SearchScreen: the visible result list
  searched,          \* SearchScreen: the searched state
  loading,           \* SearchScreen: the loading state
  recentSearches,    \* SearchScreen: the recent searches shown as chips
  recentLoads,       \* SearchScreen: loadRecentSearches calls in flight
  completions,       \* the request ids in the order their responses arrived
  recentCalls,       \* the addRecentSearch / clearRecentSearches calls, by caller
  presetCalls,       \* the saveFilterPreset / deleteFilterPreset calls, by caller
  clearCall,         \* SettingsScreen: the clearCache call of handleClearCache
  getCalls,          \* the getFavorites / getCacheSize calls, by function
  browsePrograms,    \* BrowseScreen: the programs state
  selectedCategory,  \* BrowseScreen: the selectedCategory state
  selectedArea,      \* BrowseScreen: the selectedArea state
  sortBy,            \* BrowseScreen: the sortBy state
  showSavedOnly,     \* BrowseScreen: the showSavedOnly state
  filteredPrograms   \* BrowseScreen: the memoized derived list of the last render

vars == <<storage, now, calls, favCalls, toggles, browseFavorites, browseRendered,
          searchFavorites, detailIsFavorite, searchQuery, debounce, requestIdRef,
          requests, programs, searched, loading, recentSearches, recentLoads,
          completions, recentCalls, presetCalls, clearCall, getCalls, browsePrograms, selectedCategory,
          selectedArea, sortBy, showSavedOnly, filteredPrograms>>

\* The variables of the SearchScreen's search.
searchVars == <<searchQuery, debounce, requestIdRef, requests, programs, searched,
                loading, recentSearches, recentLoads, completions>>

\* The variables of the screens' favorite toggles.
screenVars == <<toggles, browseFavorites, browseRendered, searchFavorites,
                detailIsFavorite>>

\* The variables of the favorites store's callers.
favVars == <<favCalls, screenVars>>

\* The variables of the fetch layer's callers.
fetchVars == <<now, calls>>

\* The variables of the direct callers of the recent-search store.
storeVars == <<recentCalls, presetCalls, clearCall, getCalls>>

\* The variables of the BrowseScreen's list: the programs and the filter and
\* sort settings, and the list derived from them.
listVars == <<browsePrograms, selectedCategory, selectedArea, sortBy, showSavedOnly,
              filteredPrograms>>

(***************************************************************************)
(* Cache-backed fetch layer (APIService.fetchWithCache).                   *)
(***************************************************************************)
\* The callers of fetchWithCache: each runs one call at a time, to completion.
Calls == {"c1", "c2"}

\* The caller of the specifications with one fetchWithCache call at a time.
OneCaller == {"c1"}

\* The JSON bodies the remote content source may serve (objects, as the
\* response types ProgramsResponse, APIMetadata, ... are).
Payloads == {"body1", "body2"}

\* The public methods that go through fetchWithCache, as (endpoint, cacheKey).
FetchAPI ==
  { [endpoint |-> "/programs.json", key |-> CACHE_KEYS.PROGRAMS],
    [endpoint |-> "/metadata.json", key |-> CACHE_KEYS.METADATA] }

\* getPrograms(): fetchWithCache('/programs.json', CACHE_KEYS.PROGRAMS)
ProgramsAPI == [endpoint |-> "/programs.json", key |-> CACHE_KEYS.PROGRAMS]

\* Ways the network attempt can fail.
FailureKinds == {"transport", "timeout", "http", "parse"}

\* The result of a call whose promise rejected.
Threw == "threw"

\* interface CachedData<T> { data: T; timestamp: number }
CachedData(data, t) == [data |-> data, timestamp |-> t]

\* Whether storage holds an item under key.
HasItem(st, key) == st[key] # NoItem

\* The age the freshness check computes for the item under key at time t.
AgeOf(st, key, t) == t - JSONparse(st[key]).timestamp

\* Mutant of GetFromCache: the freshness test is age >= CACHE_DURATION.
GetFromCache_OffByOne(st, key, allowStale, t) ==
  LET item == st[key] IN
  IF item = NoItem THEN Null
  ELSE LET cached == JSONparse(item)
           age == t - cached.timestamp
       IN IF ~allowStale /\ age >= CACHE_DURATION THEN Null ELSE cached.data

\* Mutant of GetFromCache: allowStale is ignored, a stale entry is never read.
GetFromCache_NeverStale(st, key, allowStale, t) ==
  LET item == st[key] IN
  IF item = NoItem THEN Null
  ELSE LET cached == JSONparse(item)
           age == t - cached.timestamp
       IN IF age > CACHE_DURATION THEN Null ELSE cached.data

\* Mutant of GetFromCache: the entry never expires.
GetFromCache_NoExpiry(st, key, allowStale, t) ==
  LET item == st[key] IN
  IF item = NoItem THEN Null ELSE JSONparse(item).data

\* getFromCache(key, allowStale): the payload, or Null.
GetFromCache(st, key, allowStale, t) ==
  LET item == st[key] IN
  IF item = NoItem THEN Null
  ELSE LET cached == JSONparse(item)
           age == t - cached.timestamp
       IN IF ~allowStale /\ age > CACHE_DURATION THEN Null ELSE cached.data

\* Mutant of SaveToCache: an existing entry keeps its timestamp and gets the
\* new payload.
SaveToCache_Merge(st, key, cached) ==
  [st EXCEPT ![key] =
     IF HasItem(st, key)
     THEN JSONstringify(CachedData(cached.data, JSONparse(st[key]).timestamp))
     ELSE JSONstringify(cached)]

\* saveToCache(key, data): the storage after AsyncStorage.setItem landed.
SaveToCache(st, key, cached) == [st EXCEPT ![key] = JSONstringify(cached)]

\* A call that has not been made. pc, endpoint, key, force, err, data and ts
\* are the call's position and locals; netReqs and writes count the network
\* requests it issued and the cache writes it performed; result and via are
\* what it returned and by which path; freshAtCall records whether a fresh
\* entry existed when it was called and age the age of the entry it served;
\* logged holds the messages getFromCache and saveToCache logged for it.
IdleCall ==
  [ pc |-> "idle", endpoint |-> "", key |-> "", force |-> FALSE,
    err |-> "none", data |-> Null, ts |-> 0,
    netReqs |-> 0, writes |-> 0, result |-> Null, via |-> "none",
    freshAtCall |-> FALSE, age |-> -1, logged |-> <<>> ]

\* The call returned payload d, served by path via.
Returned(call, d, via) == [call EXCEPT !.pc = "done", !.result = d, !.via = via]

\* The call returned the cached payload d, whose entry had age a.
ReturnedCached(call, d, via, a) == [Returned(call, d, via) EXCEPT !.age = a]

\* Whether storage holds a fresh entry under key at time t.
HasFresh(st, key, t) == HasItem(st, key) /\ AgeOf(st, key, t) <= CACHE_DURATION

\* The network attempt failed: control enters the catch block, which issues
\* getFromCache(cacheKey, true).
Caught(call, kind) == [call EXCEPT !.pc = "fallback", !.err = kind]

\* The call issues its network request (fetchWithTimeout).
IssueFetch(call) == [call EXCEPT !.pc = "net", !.netReqs = @ + 1]

\* Mutant of FetchWithCache: forceRefresh is ignored, the cache is read first.
FetchWithCache_IgnoreForce(c, api, forceRefresh) ==
  /\ calls[c].pc \in {"idle", "done"}
  /\ calls' = [calls EXCEPT ![c] =
                 [IdleCall EXCEPT !.endpoint = api.endpoint, !.key = api.key,
                                  !.force = forceRefresh, !.pc = "cacheRead",
                                  !.freshAtCall = HasFresh(storage, api.key, now)]]
  /\ UNCHANGED <<storage, now, favVars, searchVars, storeVars, listVars>>

\* fetchWithCache(endpoint, cacheKey, forceRefresh) is called: it runs to its
\* first await, which is the cache read, or the fetch when forceRefresh.
FetchWithCache(c, api, forceRefresh) ==
  /\ calls[c].pc \in {"idle", "done"}
  /\ LET call == [IdleCall EXCEPT !.endpoint = api.endpoint, !.key = api.key,
                                  !.force = forceRefresh,
                                  !.freshAtCall = HasFresh(storage, api.key, now)]
     IN calls' = [calls EXCEPT ![c] =
                    IF ~forceRefresh THEN [call EXCEPT !.pc = "cacheRead"]
                    ELSE IssueFetch(call)]
  /\ UNCHANGED <<storage, now, favVars, searchVars, storeVars, listVars>>

\* getFromCache(cacheKey) resolved: a fresh entry is returned, otherwise the
\* network request is issued.
CacheCheck(c) ==
  /\ calls[c].pc = "cacheRead"
  /\ LET cached == GetFromCache(storage, calls[c].key, FALSE, now)
     IN calls' = [calls EXCEPT ![c] =
                    IF cached # Null
                    THEN ReturnedCached(@, cached, "fresh", AgeOf(storage, calls[c].key, now))
                    ELSE IssueFetch(@)]
  /\ UNCHANGED <<storage, now, favVars, searchVars, storeVars, listVars>>

\* fetch rejected: a transport error, or the 12 s timer aborted it.
FetchReject(c, kind) ==
  /\ calls[c].pc = "net"
  /\ kind \in {"transport", "timeout"}
  /\ calls' = [calls EXCEPT ![c] = Caught(@, kind)]
  /\ UNCHANGED <<storage, now, favVars, searchVars, storeVars, listVars>>

\* fetch resolved with a response: !response.ok throws, otherwise
\* response.json() is awaited.
FetchResolve(c, ok) ==
  /\ calls[c].pc = "net"
  /\ calls' = [calls EXCEPT ![c] =
                 IF ~ok THEN Caught(@, "http") ELSE [@ EXCEPT !.pc = "json"]]
  /\ UNCHANGED <<storage, now, favVars, searchVars, storeVars, listVars>>

\* response.json() rejected: the body does not parse.
JsonReject(c) ==
  /\ calls[c].pc = "json"
  /\ calls' = [calls EXCEPT ![c] = Caught(@, "parse")]
  /\ UNCHANGED <<storage, now, favVars, searchVars, storeVars, listVars>>

\* Mutant of JsonResolve: the payload is returned without being cached.
JsonResolve_NoSave(c, d) ==
  /\ calls[c].pc = "json"
  /\ calls' = [calls EXCEPT ![c] = Returned([@ EXCEPT !.data = d], d, "network")]
  /\ UNCHANGED <<storage, now, favVars, searchVars, storeVars, listVars>>

\* response.json() resolved to d: saveToCache builds {data, timestamp:
\* Date.now()} and issues AsyncStorage.setItem.
JsonResolve(c, d) ==
  /\ calls[c].pc = "json"
  /\ calls' = [calls EXCEPT ![c] = [@ EXCEPT !.pc = "save", !.data = d, !.ts = now]]
  /\ UNCHANGED <<storage, now, favVars, searchVars, storeVars, listVars>>

\* AsyncStorage.setItem landed: the entry is replaced and the payload returned.
SaveDone(c) ==
  /\ calls[c].pc = "save"
  /\ storage' = SaveToCache(storage, calls[c].key, CachedData(calls[c].data, calls[c].ts))
  /\ calls' = [calls EXCEPT ![c] =
                 Returned([@ EXCEPT !.writes = @ + 1], calls[c].data, "network")]
  /\ UNCHANGED <<now, favVars, searchVars, storeVars, listVars>>

\* The catch block's getFromCache(cacheKey, true) resolved: any entry is
\* returned, otherwise the error is rethrown.
Fallback(c) ==
  /\ calls[c].pc = "fallback"
  /\ LET cached == GetFromCache(storage, calls[c].key, TRUE, now)
     IN calls' = [calls EXCEPT ![c] =
                    IF cached # Null
                    THEN ReturnedCached(@, cached, "stale", AgeOf(storage, calls[c].key, now))
                    ELSE Returned(@, Threw, "error")]
  /\ UNCHANGED <<storage, now, favVars, searchVars, storeVars, listVars>>

\* getFromCache's catch block: AsyncStorage.getItem rejected or JSON.parse
\* threw; console.error('Cache read error:', error) and return null.
CacheReadError(call) == [call EXCEPT !.logged = Append(@, "Cache read error")]

\* saveToCache's catch block: AsyncStorage.setItem rejected;
\* console.error('Cache write error:', error), nothing is rethrown.
CacheWriteError(call) == [call EXCEPT !.logged = Append(@, "Cache write error")]

\* getFromCache(cacheKey) failed inside: it returned null, so the network
\* request is issued.
CacheCheckFail(c) ==
  /\ calls[c].pc = "cacheRead"
  /\ calls' = [calls EXCEPT ![c] = IssueFetch(CacheReadError(@))]
  /\ UNCHANGED <<storage, now, favVars, searchVars, storeVars, listVars>>

\* Mutant of SaveFail: the storage error reaches the caller.
SaveFail_Throws(c) ==
  /\ calls[c].pc = "save"
  /\ calls' = [calls EXCEPT ![c] = Returned(CacheWriteError(@), Threw, "error")]
  /\ UNCHANGED <<storage, now, favVars, searchVars, storeVars, listVars>>

\* saveToCache failed inside: nothing is stored, and fetchWithCache goes on
\* to `return data`.
SaveFail(c) ==
  /\ calls[c].pc = "save"
  /\ calls' = [calls EXCEPT ![c] =
                 Returned(CacheWriteError(@), calls[c].data, "network")]
  /\ UNCHANGED <<storage, now, favVars, searchVars, storeVars, listVars>>

\* The catch block's getFromCache(cacheKey, true) failed inside: it returned
\* null, so the network attempt's error is rethrown.
FallbackFail(c) ==
  /\ calls[c].pc = "fallback"
  /\ calls' = [calls EXCEPT ![c] = Returned(CacheReadError(@), Threw, "error")]
  /\ UNCHANGED <<storage, now, favVars, searchVars, storeVars, listVars>>

\* The number of clock advances that led to time t.
Ticks(t) == (t \div CACHE_DURATION) + (t % CACHE_DURATION)

\* Time passes: by one millisecond, or by a whole cache duration.
Tick(d) ==
  /\ Ticks(now) < MaxTicks
  /\ now' = now + d
  /\ UNCHANGED <<storage, calls, favVars, searchVars, storeVars, listVars>>

(***************************************************************************)
(* Favorites store (APIService.getFavorites / addFavorite / removeFavorite).*)
(***************************************************************************)
\* Program identifiers.
ProgramIds == {"a", "b", "c"}

\* Callers that use the store directly.
StoreClients == {"p1", "p2"}

\* Invocations of the screens' handleToggleFavorite.
Handlers == {"h1", "h2"}

\* Everything that calls addFavorite or removeFavorite.
FavCallers == StoreClients \cup Handlers

\* Array.prototype.includes
Includes(list, x) == \E i \in 1..Len(list) : list[i] = x

\* Array.prototype.filter(id => id !== x)
Without(list, x) == SelectSeq(list, LAMBDA y : y # x)

\* Whether a list holds no element twice.
NoDuplicates(list) == \A i, j \in 1..Len(list) : list[i] = list[j] => i = j

\* getFavorites() on a storage whose read succeeds: the parsed list, or [].
GetFavorites(st) ==
  LET favorites == st[CACHE_KEYS.FAVORITES]
  IN IF favorites # NoItem THEN JSONparse(favorites) ELSE <<>>

\* A store call that has not been made. read is the list getFavorites
\* returned, list the list handed to setItem (both locals, gone when the call
\* ends), wrote the number of setItem calls that landed.
IdleFavCall ==
  [ pc |-> "idle", op |-> "none", id |-> "", read |-> <<>>, list |-> <<>>,
    wrote |-> 0 ]

\* Whether caller p has no store call in flight.
FavQuiet(p) == favCalls[p].pc \in {"idle", "returned", "threw"}

\* addFavorite(programId) / removeFavorite(programId) is called: it runs to
\* its first await, the read of getFavorites.
FavCall(p, op, programId) ==
  /\ FavQuiet(p)
  /\ favCalls' = [favCalls EXCEPT ![p] =
                    [IdleFavCall EXCEPT !.pc = "read", !.op = op, !.id = programId]]

\* The call ends, returning or throwing.
Ended(call, how) == [call EXCEPT !.pc = how, !.read = <<>>, !.list = <<>>]

\* Mutant of AfterRead: addFavorite pushes without looking for the id.
AfterRead_NoIncludes(call, favorites) ==
  IF call.op = "add"
  THEN [call EXCEPT !.pc = "write", !.read = favorites,
                    !.list = Append(favorites, call.id)]
  ELSE [call EXCEPT !.pc = "write", !.read = favorites,
                    !.list = Without(favorites, call.id)]

\* Mutant of AfterRead: addFavorite writes a list of the new id alone.
AfterRead_Replace(call, favorites) ==
  IF call.op = "add"
  THEN IF ~Includes(favorites, call.id)
       THEN [call EXCEPT !.pc = "write", !.read = favorites, !.list = <<call.id>>]
       ELSE Ended(call, "returned")
  ELSE [call EXCEPT !.pc = "write", !.read = favorites,
                    !.list = Without(favorites, call.id)]

\* Mutant of AfterRead: addFavorite puts the new id first.
AfterRead_Unshift(call, favorites) ==
  IF call.op = "add"
  THEN IF ~Includes(favorites, call.id)
       THEN [call EXCEPT !.pc = "write", !.read = favorites,
                         !.list = <<call.id>> \o favorites]
       ELSE Ended(call, "returned")
  ELSE [call EXCEPT !.pc = "write", !.read = favorites,
                    !.list = Without(favorites, call.id)]

\* The call's synchronous block after getFavorites returned favorites:
\* addFavorite pushes the id and issues setItem unless the list includes it,
\* removeFavorite filters the id out and always issues setItem.
AfterRead(call, favorites) ==
  IF call.op = "add"
  THEN IF ~Includes(favorites, call.id)
       THEN [call EXCEPT !.pc = "write", !.read = favorites,
                         !.list = Append(favorites, call.id)]
       ELSE Ended(call, "returned")
  ELSE [call EXCEPT !.pc = "write", !.read = favorites,
                    !.list = Without(favorites, call.id)]

\* getFavorites resolved for caller p.
FavRead(p) ==
  /\ favCalls[p].pc = "read"
  /\ favCalls' = [favCalls EXCEPT ![p] = AfterRead(@, GetFavorites(storage))]
  /\ UNCHANGED storage

\* AsyncStorage.setItem(FAVORITES, JSON.stringify(list)) landed for caller p.
FavWrite(p) ==
  /\ favCalls[p].pc = "write"
  /\ storage' = [storage EXCEPT ![CACHE_KEYS.FAVORITES] = JSONstringify(favCalls[p].list)]
  /\ favCalls' = [favCalls EXCEPT ![p] = Ended([@ EXCEPT !.wrote = @ + 1], "returned")]

\* AsyncStorage.setItem rejected for caller p: the catch block logs and
\* rethrows.
FavWriteFail(p) ==
  /\ favCalls[p].pc = "write"
  /\ favCalls' = [favCalls EXCEPT ![p] = Ended(@, "threw")]
  /\ UNCHANGED storage

\* getFavorites failed inside addFavorite / removeFavorite of caller p
\* (getItem rejected, or the item did not parse): its catch block returned
\* [], and the call goes on with that list.
FavReadFail(p) ==
  /\ favCalls[p].pc = "read"
  /\ favCalls' = [favCalls EXCEPT ![p] = AfterRead(@, <<>>)]
  /\ UNCHANGED storage

(***************************************************************************)
(* The getters called on their own: getFavorites and getCacheSize.         *)
(***************************************************************************)
\* The functions the model calls on their own.
Getters == {"getFavorites", "getCacheSize"}

\* A getter call that has not been made. keys is getCacheSize's cacheKeys,
\* favorites and size are what getFavorites and getCacheSize returned, logged
\* the messages the call logged.
IdleGetCall ==
  [ pc |-> "idle", keys |-> {}, favorites |-> <<>>, size |-> 0, logged |-> <<>> ]

\* key.startsWith('@bay_area_discounts:')
StartsWithPrefix(key) == SubSeq(key, 1, 20) = "@bay_area_discounts:"

\* item[1]?.length || 0: the length of a stored string. The model does not
\* spell the JSON text out; every stored string counts for the two characters
\* of the shortest JSON text.
ItemLength(item) == IF item = NoItem THEN 0 ELSE 2

\* items.reduce((total, item) => total + (item[1]?.length || 0), 0)
RECURSIVE TotalLength(_, _)
TotalLength(st, keys) ==
  IF keys = {} THEN 0
  ELSE LET k == CHOOSE x \in keys : TRUE
       IN ItemLength(st[k]) + TotalLength(st, keys \ {k})

\* getFavorites() / getCacheSize() is called: it runs to its first await,
\* AsyncStorage.getItem or AsyncStorage.getAllKeys.
GetCall(g) ==
  /\ getCalls[g].pc \in {"idle", "returned"}
  /\ getCalls' = [getCalls EXCEPT ![g] = [IdleGetCall EXCEPT !.pc = "read"]]
  /\ UNCHANGED <<storage, fetchVars, favVars, searchVars, recentCalls, presetCalls,
                 clearCall, listVars>>

\* getFavorites: getItem resolved and the item parsed.
GetFavoritesRead ==
  /\ getCalls["getFavorites"].pc = "read"
  /\ getCalls' = [getCalls EXCEPT !["getFavorites"] =
                    [@ EXCEPT !.pc = "returned", !.favorites = GetFavorites(storage)]]
  /\ UNCHANGED <<storage, fetchVars, favVars, searchVars, recentCalls, presetCalls,
                 clearCall, listVars>>

\* Mutant of GetFavoritesFailed: the error is rethrown.
GetFavoritesFailed_Rethrow(call) ==
  [call EXCEPT !.pc = "threw", !.logged = Append(@, "Get favorites error")]

\* getFavorites' catch block: console.error('Get favorites error:', error)
\* and return [].
GetFavoritesFailed(call) ==
  [call EXCEPT !.pc = "returned", !.favorites = <<>>,
               !.logged = Append(@, "Get favorites error")]

\* getFavorites: getItem rejected or JSON.parse threw.
GetFavoritesFail ==
  /\ getCalls["getFavorites"].pc = "read"
  /\ getCalls' = [getCalls EXCEPT !["getFavorites"] = GetFavoritesFailed(@)]
  /\ UNCHANGED <<storage, fetchVars, favVars, searchVars, recentCalls, presetCalls,
                 clearCall, listVars>>

\* getCacheSize: getAllKeys resolved; the keys are filtered by the prefix and
\* multiGet is issued.
CacheSizeKeys ==
  /\ getCalls["getCacheSize"].pc = "read"
  /\ getCalls' = [getCalls EXCEPT !["getCacheSize"] =
                    [@ EXCEPT !.pc = "items",
                              !.keys = {k \in DOMAIN storage :
                                          HasItem(storage, k) /\ StartsWithPrefix(k)}]]
  /\ UNCHANGED <<storage, fetchVars, favVars, searchVars, recentCalls, presetCalls,
                 clearCall, listVars>>

\* getCacheSize: multiGet resolved; the lengths are summed.
CacheSizeItems ==
  /\ getCalls["getCacheSize"].pc = "items"
  /\ getCalls' = [getCalls EXCEPT !["getCacheSize"] =
                    [@ EXCEPT !.pc = "returned", !.keys = {},
                              !.size = TotalLength(storage, getCalls["getCacheSize"].keys)]]
  /\ UNCHANGED <<storage, fetchVars, favVars, searchVars, recentCalls, presetCalls,
                 clearCall, listVars>>

\* getCacheSize: getAllKeys or multiGet rejected; the catch block logs and
\* returns 0.
CacheSizeFail ==
  /\ getCalls["getCacheSize"].pc \in {"read", "items"}
  /\ getCalls' = [getCalls EXCEPT !["getCacheSize"] =
                    [@ EXCEPT !.pc = "returned", !.keys = {}, !.size = 0,
                              !.logged = Append(@, "Error getting cache size")]]
  /\ UNCHANGED <<storage, fetchVars, favVars, searchVars, recentCalls, presetCalls,
                 clearCall, listVars>>

(***************************************************************************)
(* The screens' favorite toggles (handleToggleFavorite of BrowseScreen,    *)
(* SearchScreen and ProgramDetailScreen).                                  *)
(***************************************************************************)
\* The programs the screens list.
ListedPrograms == {"a", "b"}

\* route.params.programId of the ProgramDetailScreen.
DetailProgramId == "a"

\* prev.includes(id) ? prev.filter(x => x !== id) : [...prev, id]
ToggleIn(prev, id) == IF Includes(prev, id) THEN Without(prev, id) ELSE Append(prev, id)

\* A handler that has not run. closure is the favorites its closure holds
\* (kept where the handler reads them after its await),
\* pre the favorited state the screen showed for id when it was pressed,
\* failed whether its persistence call threw, alerted whether it raised an
\* Alert, alone whether no other toggle of id ran on its screen meanwhile.
IdleToggle ==
  [ pc |-> "idle", screen |-> "none", id |-> "", closure |-> <<>>,
    pre |-> FALSE, failed |-> FALSE, alerted |-> FALSE, alone |-> TRUE ]

\* The favorited state a screen shows for program id.
Visible(screen, id) ==
  CASE screen = "Browse" -> Includes(browseFavorites, id)
    [] screen = "Search" -> Includes(searchFavorites, id)
    [] screen = "Detail" -> detailIsFavorite
    [] OTHER -> FALSE

\* The favorites the handler created by a screen's last render closes over,
\* as far as the handler reads them after its await (BrowseScreen's does not).
KeptClosure(screen) ==
  CASE screen = "Search" -> searchFavorites
    [] screen = "Detail" -> IF detailIsFavorite THEN <<DetailProgramId>> ELSE <<>>
    [] OTHER -> <<>>

\* The favorites the handler created by a screen's last render closes over.
ClosureOf(screen) ==
  CASE screen = "Browse" -> browseRendered
    [] screen = "Search" -> searchFavorites
    [] screen = "Detail" -> IF detailIsFavorite THEN <<DetailProgramId>> ELSE <<>>
    [] OTHER -> <<>>

\* Handler h is pressed for program id on screen: the toggles as they are
\* once it awaits its persistence call.
Pressed(h, screen, id) ==
  [g \in Handlers |->
     IF g = h
     THEN [IdleToggle EXCEPT
             !.pc = "awaiting", !.screen = screen, !.id = id,
             !.closure = KeptClosure(screen), !.pre = Visible(screen, id),
             !.alone = ~\E o \in Handlers \ {h} :
                          /\ toggles[o].pc = "awaiting"
                          /\ toggles[o].screen = screen /\ toggles[o].id = id]
     ELSE IF toggles[g].pc = "awaiting" /\ toggles[g].screen = screen /\ toggles[g].id = id
          THEN [toggles[g] EXCEPT !.alone = FALSE]
          ELSE toggles[g]]

\* handleToggleFavorite(programId) of a screen is pressed: it runs to its
\* await of removeFavorite or addFavorite, chosen by the closure's favorites.
\* BrowseScreen first queues the optimistic setFavorites(prev => ...).
Toggle(h, screen, id) ==
  /\ toggles[h].pc \in {"idle", "done"}
  /\ screen = "Detail" => id = DetailProgramId
  /\ FavCall(h, IF Includes(ClosureOf(screen), id) THEN "remove" ELSE "add", id)
  /\ toggles' = Pressed(h, screen, id)
  /\ browseFavorites' = IF screen = "Browse" THEN ToggleIn(browseFavorites, id)
                        ELSE browseFavorites
  /\ UNCHANGED <<storage, browseRendered, searchFavorites, detailIsFavorite>>

\* Mutant of BrowseAfter: a failed persistence call is not reverted.
BrowseAfter_NoRevert(favorites, id, ok) == favorites

\* BrowseScreen's favorites once the persistence call of a toggle of id
\* finished: the catch block toggles id again.
BrowseAfter(favorites, id, ok) == IF ok THEN favorites ELSE ToggleIn(favorites, id)

\* SearchScreen's favorites once the persistence call finished: on success
\* the state is set from the closure's list.
SearchAfter(favorites, closure, id, ok) ==
  IF ~ok THEN favorites
  ELSE IF Includes(closure, id) THEN Without(closure, id) ELSE Append(closure, id)

\* ProgramDetailScreen's isFavorite once the persistence call finished.
DetailAfter(isFavorite, closure, id, ok) ==
  IF ~ok THEN isFavorite ELSE ~Includes(closure, id)

\* Whether a screen's catch block raises an Alert.
Alerts(screen) == screen = "Detail"

\* The persistence call of handler h finished (ok, or it threw): the rest of
\* the handler runs in the same turn of the event loop.
Settle(h, ok) ==
  LET t == toggles[h] IN
  /\ toggles' = [toggles EXCEPT ![h] =
                   [@ EXCEPT !.pc = "done", !.failed = ~ok,
                             !.alerted = ~ok /\ Alerts(t.screen)]]
  /\ browseFavorites' = IF t.screen = "Browse"
                        THEN BrowseAfter(browseFavorites, t.id, ok)
                        ELSE browseFavorites
  /\ searchFavorites' = IF t.screen = "Search"
                        THEN SearchAfter(searchFavorites, t.closure, t.id, ok)
                        ELSE searchFavorites
  /\ detailIsFavorite' = IF t.screen = "Detail"
                         THEN DetailAfter(detailIsFavorite, t.closure, t.id, ok)
                         ELSE detailIsFavorite
  /\ UNCHANGED browseRendered

\* getFavorites resolved inside the persistence call of handler h; an
\* addFavorite that finds the id returns at once.
ToggleRead(h) ==
  /\ toggles[h].pc = "awaiting"
  /\ FavRead(h)
  /\ IF favCalls'[h].pc = "returned" THEN Settle(h, TRUE) ELSE UNCHANGED screenVars

\* setItem landed inside the persistence call of handler h.
ToggleWrite(h) ==
  /\ toggles[h].pc = "awaiting"
  /\ FavWrite(h)
  /\ Settle(h, TRUE)

\* setItem rejected inside the persistence call of handler h.
ToggleWriteFail(h) ==
  /\ toggles[h].pc = "awaiting"
  /\ FavWriteFail(h)
  /\ Settle(h, FALSE)

\* BrowseScreen renders: new handlers close over the current favorites.
BrowseRender ==
  /\ browseRendered # browseFavorites
  /\ browseRendered' = browseFavorites
  /\ UNCHANGED <<storage, favCalls, toggles, browseFavorites, searchFavorites,
                 detailIsFavorite>>

(***************************************************************************)
(* Strings: a string is the sequence of its characters.                    *)
(***************************************************************************)
\* String.prototype.toLowerCase, per character.
LowerChar(ch) ==
  CASE ch = "F" -> "f"
    [] ch = "O" -> "o"
    [] ch = "B" -> "b"
    [] OTHER -> ch

\* String.prototype.toLowerCase
ToLowerCase(str) == [i \in 1..Len(str) |-> LowerChar(str[i])]

RECURSIVE TrimStart(_)
\* String.prototype.trimStart
TrimStart(str) ==
  IF str # <<>> /\ Head(str) = " " THEN TrimStart(Tail(str)) ELSE str

RECURSIVE TrimEnd(_)
\* String.prototype.trimEnd
TrimEnd(str) ==
  IF str # <<>> /\ str[Len(str)] = " " THEN TrimEnd(SubSeq(str, 1, Len(str) - 1)) ELSE str

\* String.prototype.trim
Trim(str) == TrimEnd(TrimStart(str))

\* String.prototype.includes
StrIncludes(str, part) ==
  \E i \in 1..(Len(str) - Len(part) + 1) : SubSeq(str, i, i + Len(part) - 1) = part

(***************************************************************************)
(* SearchScreen: the debounced, sequenced search.                          *)
(***************************************************************************)
RequestIds == 1..MaxRequests

\* The texts the user may type into the search input.
SearchTexts ==
  { <<>>, <<"f">>, <<" ", "f">>, <<"f", "o">>, <<"F", "O">>, <<"b", "u">>,
    <<"z", "z">> }

\* The program list getPrograms() resolves to.
Catalog ==
  << [id |-> "a", name |-> <<"F", "o", "o", "d">>, description |-> <<"e", "a", "t">>],
     [id |-> "b", name |-> <<"B", "u", "s">>, description |-> <<"f", "a", "r", "e">>] >>

\* searchPrograms(query) once getPrograms() resolved: the programs whose
\* name or description includes the query, case-insensitively.
SearchPrograms(query) ==
  LET lowerQuery == ToLowerCase(query)
  IN SelectSeq(Catalog, LAMBDA program :
       \/ StrIncludes(ToLowerCase(program.name), lowerQuery)
       \/ StrIncludes(ToLowerCase(program.description), lowerQuery))

\* private readonly MAX_RECENT_SEARCHES = 5;
MAX_RECENT_SEARCHES == 5

\* getRecentSearches() on a storage whose read succeeds.
GetRecentSearches(st) ==
  LET searches == st[CACHE_KEYS.RECENT_SEARCHES]
  IN IF searches # NoItem THEN JSONparse(searches) ELSE <<>>

\* Array.prototype.slice(0, n)
Slice(list, n) == SubSeq(list, 1, IF Len(list) < n THEN Len(list) ELSE n)

\* Mutant of RecentAfter: the list is not cut.
RecentAfter_NoSlice(searches, query) ==
  <<query>> \o SelectSeq(searches, LAMBDA x : ToLowerCase(x) # ToLowerCase(query))

\* Mutant of RecentAfter: the existing entry is compared case-sensitively.
RecentAfter_CaseSensitive(searches, query) ==
  Slice(<<query>> \o SelectSeq(searches, LAMBDA x : x # query), MAX_RECENT_SEARCHES)

\* The list addRecentSearch(query) hands to setItem: the entries equal to
\* query, case-insensitively, are removed, query is put in front and the
\* list is cut to MAX_RECENT_SEARCHES entries.
RecentAfter(searches, query) ==
  Slice(<<query>> \o SelectSeq(searches, LAMBDA x : ToLowerCase(x) # ToLowerCase(query)),
        MAX_RECENT_SEARCHES)

\* A request id that has not been issued. query and saveToRecent are the
\* arguments of performSearch, list the recent searches addRecentSearch is
\* writing, outcome how searchPrograms ended; reset tells, while
\* searchPrograms is awaited, that the results were reset since the call.
NoRequest ==
  [ pc |-> "none", query |-> <<>>, saveToRecent |-> FALSE, list |-> <<>>,
    outcome |-> "none", reset |-> FALSE ]

\* setPrograms([]) and setSearched(false) run while requests are in flight:
\* requestIdRef is left alone, the requests only remember the reset.
MarkReset(reqs) ==
  [r \in RequestIds |->
     IF reqs[r].pc = "searching" THEN [reqs[r] EXCEPT !.reset = TRUE] ELSE reqs[r]]

\* The timer the debounce effect sets for a query text: its callback holds
\* the trimmed text.
Armed(text) == <<Trim(text)>>

\* Mutant of ClearTimeout: the timers set earlier are left running.
ClearTimeout_Never(timers) == timers

\* The effect's cleanup, clearTimeout(debounceTimer), run before the effect
\* runs again: the timer set by the previous run is cancelled.
ClearTimeout(timers) == <<>>

\* setSearchQuery(text): when the text changes the screen renders again and
\* the effect clears the pending timer and arms a new one.
SetQuery(text) ==
  /\ searchQuery' = text
  /\ debounce' = IF text # searchQuery THEN ClearTimeout(debounce) \o Armed(text)
                 ELSE debounce

\* Mutant of Latest: every response counts as the latest.
Latest_Always(r) == TRUE

\* requestId === requestIdRef.current
Latest(r) == r = requestIdRef

\* performSearch(query, saveToRecent), to its await of searchPrograms: a
\* query shorter than 2 characters returns at once, otherwise the request is
\* stamped with the incremented counter and loading is set.
PerformSearch(query, saveToRecent) ==
  IF Len(query) < 2
  THEN UNCHANGED <<requestIdRef, requests, loading>>
  ELSE /\ requestIdRef < MaxRequests
       /\ requestIdRef' = requestIdRef + 1
       /\ requests' = [requests EXCEPT ![requestIdRef + 1] =
                         [NoRequest EXCEPT !.pc = "searching", !.query = query,
                                           !.saveToRecent = saveToRecent]]
       /\ loading' = TRUE

\* Mutant of Finally: the finally block leaves loading alone.
Finally_Skipped(r) == UNCHANGED loading

\* The finally block of performSearch for request r.
Finally(r) == loading' = IF Latest(r) THEN FALSE ELSE loading

\* The user edits the text of the search input.
TypeQuery(text) ==
  /\ text # searchQuery
  /\ SetQuery(text)
  /\ UNCHANGED <<requestIdRef, requests, programs, searched, loading,
                 recentSearches, recentLoads, completions, storage>>

\* The debounce timer fires 500 ms after the last change of the text.
DebounceFire ==
  /\ \E i \in 1..Len(debounce) :
       /\ debounce' = SubSeq(debounce, 1, i - 1) \o SubSeq(debounce, i + 1, Len(debounce))
       /\ IF Len(debounce[i]) >= 2
          THEN PerformSearch(debounce[i], TRUE) /\ UNCHANGED <<programs, searched>>
          ELSE /\ programs' = <<>>
               /\ searched' = FALSE
               /\ requests' = MarkReset(requests)
               /\ UNCHANGED <<requestIdRef, loading>>
  /\ UNCHANGED <<searchQuery, recentSearches, recentLoads, completions, storage>>

\* handleSearch: the input is submitted, or the result list is pulled.
HandleSearch ==
  /\ Len(Trim(searchQuery)) >= 2
  /\ PerformSearch(Trim(searchQuery), TRUE)
  /\ UNCHANGED <<searchQuery, debounce, programs, searched, recentSearches,
                 recentLoads, completions, storage>>

\* clearSearch: the clear button, shown while the input is not empty.
ClearSearch ==
  /\ Len(searchQuery) > 0
  /\ SetQuery(<<>>)
  /\ programs' = <<>>
  /\ searched' = FALSE
  /\ requests' = MarkReset(requests)
  /\ UNCHANGED <<requestIdRef, loading, recentSearches, recentLoads,
                 completions, storage>>

\* handleRecentSearchPress(query): a chip is pressed; the chips are shown
\* while the screen neither loads nor shows results.
RecentSearchPress(i) ==
  /\ ~loading /\ ~searched
  /\ i \in 1..Len(recentSearches)
  /\ Len(recentSearches[i]) >= 2
  /\ SetQuery(recentSearches[i])
  /\ PerformSearch(recentSearches[i], FALSE)
  /\ UNCHANGED <<programs, searched, recentSearches, recentLoads, completions, storage>>

\* searchPrograms resolved for request r: the results are applied only if r
\* is still the latest request; then the query is saved to the recent
\* searches (addRecentSearch awaits getRecentSearches) or the call ends.
SearchResolve(r) ==
  /\ requests[r].pc = "searching"
  /\ completions' = Append(completions, r)
  /\ LET results == SearchPrograms(requests[r].query)
         saves == Latest(r) /\ requests[r].saveToRecent /\ Len(results) > 0
     IN /\ programs' = IF Latest(r) THEN results ELSE programs
        /\ searched' = IF Latest(r) THEN TRUE ELSE searched
        /\ requests' = [requests EXCEPT ![r] =
                          [@ EXCEPT !.pc = IF saves THEN "recentRead" ELSE "done",
                                    !.outcome = "resolved", !.reset = FALSE]]
        /\ IF saves THEN UNCHANGED loading ELSE Finally(r)
  /\ UNCHANGED <<searchQuery, debounce, requestIdRef, recentSearches, recentLoads, storage>>

\* searchPrograms rejected for request r: the error is logged.
SearchReject(r) ==
  /\ requests[r].pc = "searching"
  /\ completions' = Append(completions, r)
  /\ requests' = [requests EXCEPT ![r] =
                    [@ EXCEPT !.pc = "done", !.outcome = "rejected", !.reset = FALSE]]
  /\ Finally(r)
  /\ UNCHANGED <<searchQuery, debounce, requestIdRef, programs, searched,
                 recentSearches, recentLoads, storage>>

\* getRecentSearches resolved inside addRecentSearch of request r: the new
\* list is built and setItem issued.
RecentRead(r) ==
  /\ requests[r].pc = "recentRead"
  /\ requests' = [requests EXCEPT ![r] =
                    [@ EXCEPT !.pc = "recentWrite",
                              !.list = RecentAfter(GetRecentSearches(storage), requests[r].query)]]
  /\ UNCHANGED <<searchQuery, debounce, requestIdRef, programs, searched, loading,
                 recentSearches, recentLoads, completions, storage>>

\* setItem landed inside addRecentSearch of request r: performSearch calls
\* loadRecentSearches without awaiting it and runs its finally block.
RecentWrite(r) ==
  /\ requests[r].pc = "recentWrite"
  /\ storage' = [storage EXCEPT ![CACHE_KEYS.RECENT_SEARCHES] =
                   JSONstringify(requests[r].list)]
  /\ requests' = [requests EXCEPT ![r] = [@ EXCEPT !.pc = "done", !.list = <<>>]]
  /\ recentLoads' = recentLoads + 1
  /\ Finally(r)
  /\ UNCHANGED <<searchQuery, debounce, requestIdRef, programs, searched,
                 recentSearches, completions>>

\* The screen comes into focus: the focus effect calls loadRecentSearches,
\* which awaits getRecentSearches.
FocusScreen ==
  /\ recentLoads = 0
  /\ recentLoads' = recentLoads + 1
  /\ UNCHANGED <<searchQuery, debounce, requestIdRef, requests, programs, searched,
                 loading, recentSearches, completions, storage>>

\* getRecentSearches resolved inside loadRecentSearches: the chips are set.
LoadRecentSearches ==
  /\ recentLoads > 0
  /\ recentLoads' = recentLoads - 1
  /\ recentSearches' = GetRecentSearches(storage)
  /\ UNCHANGED <<searchQuery, debounce, requestIdRef, requests, programs, searched,
                 loading, completions, storage>>

(***************************************************************************)
(* Recent-search store under direct, interleaved use                       *)
(* (APIService.addRecentSearch / clearRecentSearches).                     *)
(***************************************************************************)
\* The queries the callers hand to addRecentSearch.
RecentQueries ==
  { <<>>, <<"f">>, <<"F", "O">>, <<"b", "u">>, <<"e", "f">> }

\* The lists the store may hold when the callers start, of four and of five
\* entries.
InitialRecents ==
  { << <<"f", "o">>, <<"b", "u">>, <<"z", "z">>, <<"a", "b">> >>,
    << <<"b", "u">>, <<"z", "z">>, <<"a", "b">>, <<"c", "d">>, <<"f", "o">> >> }

\* A store call that has not been made. read is the list getRecentSearches
\* returned, list the list handed to setItem (both locals, gone when the call
\* ends), wrote the number of setItem calls of the call that landed.
IdleRecentCall ==
  [ pc |-> "idle", op |-> "none", query |-> <<>>, read |-> <<>>, list |-> <<>>,
    wrote |-> 0 ]

\* Whether caller p has no recent-search call in flight.
RecentQuiet(p) == recentCalls[p].pc \in {"idle", "returned"}

\* The call returns.
RecentEnded(call) == [call EXCEPT !.pc = "returned", !.read = <<>>, !.list = <<>>]

\* addRecentSearch(query) is called: an empty or one-character query
\* returns at once, otherwise the call awaits getRecentSearches.
AddRecentSearch(p, query) ==
  /\ RecentQuiet(p)
  /\ LET call == [IdleRecentCall EXCEPT !.op = "add", !.query = query]
     IN recentCalls' = [recentCalls EXCEPT ![p] =
                          IF Len(query) = 0 \/ Len(query) < 2
                          THEN RecentEnded(call)
                          ELSE [call EXCEPT !.pc = "read"]]
  /\ UNCHANGED storage

\* getRecentSearches resolved for caller p: the new list is built and
\* setItem issued.
RecentStoreRead(p) ==
  /\ recentCalls[p].pc = "read"
  /\ LET searches == GetRecentSearches(storage)
     IN recentCalls' = [recentCalls EXCEPT ![p] =
                          [@ EXCEPT !.pc = "write", !.read = searches,
                                    !.list = RecentAfter(searches, recentCalls[p].query)]]
  /\ UNCHANGED storage

\* AsyncStorage.setItem(RECENT_SEARCHES, JSON.stringify(searches)) landed.
RecentStoreWrite(p) ==
  /\ recentCalls[p].pc = "write"
  /\ storage' = [storage EXCEPT ![CACHE_KEYS.RECENT_SEARCHES] =
                   JSONstringify(recentCalls[p].list)]
  /\ recentCalls' = [recentCalls EXCEPT ![p] = RecentEnded([@ EXCEPT !.wrote = @ + 1])]

\* clearRecentSearches() is called: it awaits AsyncStorage.removeItem.
ClearRecentSearches(p) ==
  /\ RecentQuiet(p)
  /\ recentCalls' = [recentCalls EXCEPT ![p] =
                       [IdleRecentCall EXCEPT !.op = "clear", !.pc = "remove"]]
  /\ UNCHANGED storage

\* AsyncStorage.removeItem(RECENT_SEARCHES) landed.
RecentStoreRemove(p) ==
  /\ recentCalls[p].pc = "remove"
  /\ storage' = [storage EXCEPT ![CACHE_KEYS.RECENT_SEARCHES] = NoItem]
  /\ recentCalls' = [recentCalls EXCEPT ![p] = RecentEnded(@)]

\* AsyncStorage.setItem or removeItem rejected: the catch block logs the
\* error and the call returns.
RecentStoreFail(p) ==
  /\ recentCalls[p].pc \in {"write", "remove"}
  /\ recentCalls' = [recentCalls EXCEPT ![p] = RecentEnded(@)]
  /\ UNCHANGED storage

(***************************************************************************)
(* Filter-preset store under direct, interleaved use                       *)
(* (APIService.saveFilterPreset / deleteFilterPreset).                     *)
(***************************************************************************)
\* private readonly MAX_PRESETS = 10;
MAX_PRESETS == 10

\* The decimal digit d as a character.
Digit(d) == <<"0", "1", "2", "3", "4", "5", "6", "7", "8", "9">>[d + 1]

\* Number.prototype.toString() of a non-negative integer.
RECURSIVE NumberToString(_)

NumberToString(n) ==
  IF n < 10 THEN <<Digit(n)>> ELSE NumberToString(n \div 10) \o <<Digit(n % 10)>>

\* new Date(t).toISOString() for a time t within the first second of the
\* epoch: the milliseconds are written with three digits.
ToISOString(t) ==
  <<"1970-01-01T00:00:00.">>
    \o <<Digit(t \div 100), Digit((t \div 10) % 10), Digit(t % 10)>> \o <<"Z">>

\* The clock when the preset store's callers start.
PresetEpoch == 10

\* The names the callers hand to saveFilterPreset: empty, whitespace only,
\* and one that trim() shortens.
PresetNames == { <<>>, <<" ">>, <<" ", "m">> }

\* The filter snapshot the callers save.
PresetFilters ==
  { [categories |-> <<"Food">>, eligibility |-> <<>>, areas |-> <<>>, searchQuery |-> <<>>] }

\* The preset saveFilterPreset builds at time t.
NewPreset(name, filters, t) ==
  [id |-> NumberToString(t), name |-> Trim(name), filters |-> filters,
   createdAt |-> ToISOString(t)]

\* The collection after n presets were saved at the times 1..n, most
\* recent first.
SavedPresets(n) ==
  [i \in 1..n |->
     NewPreset(<<"p">>, CHOOSE f \in PresetFilters : TRUE, n + 1 - i)]

\* The collections the store may hold when the callers start.
InitialPresets == { SavedPresets(8), SavedPresets(9) }

\* The ids the callers hand to deleteFilterPreset.
DeleteIds == { NumberToString(9), NumberToString(PresetEpoch) }

\* getFilterPresets() on a storage whose read succeeds.
GetFilterPresets(st) ==
  LET presets == st[CACHE_KEYS.FILTER_PRESETS]
  IN IF presets # NoItem THEN JSONparse(presets) ELSE <<>>

\* The null saveFilterPreset returns: a FilterPreset | null is modelled as
\* the tuple of at most one preset.
NoPreset == <<>>

\* A store call that has not been made. list is the collection handed to
\* setItem, preset the preset built (both locals), result what the call
\* returned, wrote the number of setItem calls of the call that landed,
\* logged the console method the call used.
IdlePresetCall ==
  [ pc |-> "idle", op |-> "none", name |-> <<>>, filters |-> <<>>, id |-> <<>>,
    list |-> <<>>, preset |-> NoPreset, result |-> NoPreset, wrote |-> 0,
    logged |-> "none" ]

\* Whether caller p has no preset call in flight.
PresetQuiet(p) == presetCalls[p].pc \in {"idle", "returned"}

\* The call returns result.
PresetEnded(call, result) ==
  [call EXCEPT !.pc = "returned", !.list = <<>>, !.preset = NoPreset, !.result = result]

\* saveFilterPreset(name, filters) is called: an empty or whitespace-only
\* name returns null at once, otherwise the call awaits getFilterPresets.
SaveFilterPreset(p, name, filters) ==
  /\ PresetQuiet(p)
  /\ LET call == [IdlePresetCall EXCEPT !.op = "save", !.name = name, !.filters = filters]
     IN presetCalls' = [presetCalls EXCEPT ![p] =
                          IF Len(name) = 0 \/ Len(Trim(name)) = 0
                          THEN PresetEnded(call, NoPreset)
                          ELSE [call EXCEPT !.pc = "read"]]
  /\ UNCHANGED <<storage, now>>

\* deleteFilterPreset(id) is called: it awaits getFilterPresets.
DeleteFilterPreset(p, id) ==
  /\ PresetQuiet(p)
  /\ presetCalls' = [presetCalls EXCEPT ![p] =
                       [IdlePresetCall EXCEPT !.op = "delete", !.id = id, !.pc = "read"]]
  /\ UNCHANGED <<storage, now>>

\* starts.
\* Mutant of PresetAfterRead: a full collection drops its oldest preset to
\* make room.
PresetAfterRead_Evict(call, presets, t) ==
  IF call.op = "save"
  THEN LET preset == NewPreset(call.name, call.filters, t)
       IN [call EXCEPT !.pc = "write", !.preset = <<preset>>,
                       !.list = Slice(<<preset>> \o presets, MAX_PRESETS)]
  ELSE [call EXCEPT !.pc = "write",
                    !.list = SelectSeq(presets, LAMBDA x : x.id # call.id)]

\* Mutant of PresetAfterRead: the collection's size is not looked at.
PresetAfterRead_NoCap(call, presets, t) ==
  IF call.op = "save"
  THEN LET preset == NewPreset(call.name, call.filters, t)
       IN [call EXCEPT !.pc = "write", !.preset = <<preset>>,
                       !.list = <<preset>> \o presets]
  ELSE [call EXCEPT !.pc = "write",
                    !.list = SelectSeq(presets, LAMBDA x : x.id # call.id)]

\* The call's synchronous block after getFilterPresets returned presets at
\* time t: saveFilterPreset returns null when MAX_PRESETS are held,
\* otherwise it puts a new preset in front and issues setItem;
\* deleteFilterPreset filters the id out and issues setItem.
PresetAfterRead(call, presets, t) ==
  IF call.op = "save"
  THEN IF Len(presets) >= MAX_PRESETS
       THEN PresetEnded([call EXCEPT !.logged = "warn"], NoPreset)
       ELSE LET preset == NewPreset(call.name, call.filters, t)
            IN [call EXCEPT !.pc = "write", !.preset = <<preset>>,
                            !.list = <<preset>> \o presets]
  ELSE [call EXCEPT !.pc = "write",
                    !.list = SelectSeq(presets, LAMBDA x : x.id # call.id)]

\* getFilterPresets resolved for caller p.
PresetRead(p) ==
  /\ presetCalls[p].pc = "read"
  /\ presetCalls' = [presetCalls EXCEPT ![p] =
                       PresetAfterRead(@, GetFilterPresets(storage), now)]
  /\ UNCHANGED <<storage, now>>

\* AsyncStorage.setItem(FILTER_PRESETS, JSON.stringify(presets)) landed:
\* saveFilterPreset returns the preset, deleteFilterPreset returns.
PresetWrite(p) ==
  /\ presetCalls[p].pc = "write"
  /\ storage' = [storage EXCEPT ![CACHE_KEYS.FILTER_PRESETS] =
                   JSONstringify(presetCalls[p].list)]
  /\ presetCalls' = [presetCalls EXCEPT ![p] =
                       PresetEnded([@ EXCEPT !.wrote = @ + 1], presetCalls[p].preset)]
  /\ UNCHANGED now

\* AsyncStorage.setItem rejected: the catch block logs the error;
\* saveFilterPreset returns null, deleteFilterPreset returns.
PresetWriteFail(p) ==
  /\ presetCalls[p].pc = "write"
  /\ presetCalls' = [presetCalls EXCEPT ![p] =
                       PresetEnded([@ EXCEPT !.logged = "error"], NoPreset)]
  /\ UNCHANGED <<storage, now>>

\* A millisecond passes while the preset store is in use.
PresetTick ==
  /\ now < PresetEpoch + MaxTicks
  /\ now' = now + 1
  /\ UNCHANGED <<storage, presetCalls>>

(***************************************************************************)
(* BrowseScreen: the derived list (filteredPrograms).                      *)
(***************************************************************************)
\* const CATEGORY_CONFIG = {...}: the display name of each known category.
CATEGORY_CONFIG ==
  [ community         |-> [name |-> "Community"],
    education         |-> [name |-> "Education"],
    equipment         |-> [name |-> "Equipment"],
    finance           |-> [name |-> "Finance"],
    food              |-> [name |-> "Food"],
    health            |-> [name |-> "Health"],
    legal             |-> [name |-> "Legal"],
    library_resources |-> [name |-> "Library"],
    pet_resources     |-> [name |-> "Pets"],
    recreation        |-> [name |-> "Recreation"],
    technology        |-> [name |-> "Technology"],
    transportation    |-> [name |-> "Transportation"],
    utilities         |-> [name |-> "Utilities"] ]

\* const BAY_AREA_COUNTIES = [...] (ids)
BAY_AREA_COUNTIES ==
  << "San Francisco", "Alameda County", "Contra Costa County", "Marin County",
     "San Mateo County", "Santa Clara County", "Solano County", "Sonoma County" >>

\* const BROAD_AREAS = [...]
BROAD_AREAS == << "Bay Area", "Bay Area-wide", "Statewide", "California", "Nationwide" >>

\* type SortOption
SortOptions ==
  { "name-asc", "name-desc", "area-asc", "area-desc", "category-asc",
    "category-desc", "recently-verified" }

\* The programs getPrograms() may resolve to. city is the field the area
\* sort reads first; "" stands for its absence.
ProgramA ==
  [ id |-> "a", name |-> "Food Bank", category |-> "food",
    areas |-> <<"Alameda County">>, city |-> "", lastUpdated |-> "1970-01-03" ]
ProgramB ==
  [ id |-> "b", name |-> "Bus Pass", category |-> "transportation",
    areas |-> <<"Statewide">>, city |-> "", lastUpdated |-> "1970-01-02" ]
ProgramC ==
  [ id |-> "c", name |-> "Food Bank", category |-> "food",
    areas |-> <<"San Francisco", "Bay Area">>, city |-> "Oakland",
    lastUpdated |-> "1970-01-02" ]
ProgramD ==
  [ id |-> "d", name |-> "art club", category |-> "misc",
    areas |-> <<>>, city |-> "", lastUpdated |-> "1970-01-03" ]

\* The program lists loadData may receive.
BrowseCatalogs ==
  { <<ProgramA, ProgramB, ProgramC, ProgramD>>,
    <<ProgramC, ProgramD, ProgramB, ProgramA>> }

\* The favorites lists loadData may receive.
BrowseFavoriteLists == { <<>>, <<"a">>, <<"c", "b">> }

\* The strings the model sorts, in the order String.prototype.localeCompare
\* puts them: letter case counts only between otherwise equal strings.
Collation ==
  << "", "Alameda County", "art club", "Bus Pass", "Food", "Food Bank", "misc",
     "Oakland", "San Francisco", "Statewide", "Transportation" >>

\* The position of a string in the collation order.
CollationIndex(str) == CHOOSE i \in 1..Len(Collation) : Collation[i] = str

\* a.localeCompare(b): negative, zero or positive.
LocaleCompare(a, b) == CollationIndex(a) - CollationIndex(b)

\* new Date(str).getTime() for the dates of the model's programs.
GetTime(str) ==
  CASE str = "1970-01-02" -> 86400000
    [] str = "1970-01-03" -> 172800000

\* Whether a string is truthy.
Truthy(str) == str # Null /\ str # ""

\* a.city || a.areas[0] || ''
AreaKey(program) ==
  IF Truthy(program.city) THEN program.city
  ELSE IF Len(program.areas) > 0 /\ Truthy(program.areas[1]) THEN program.areas[1]
  ELSE ""

\* CATEGORY_CONFIG[a.category]?.name || a.category
CategoryName(program) ==
  IF program.category \in DOMAIN CATEGORY_CONFIG
  THEN CATEGORY_CONFIG[program.category].name
  ELSE program.category

\* The compare function handed to sort for a sort option.
Compare(a, b, option) ==
  CASE option = "name-asc" -> LocaleCompare(a.name, b.name)
    [] option = "name-desc" -> LocaleCompare(b.name, a.name)
    [] option = "area-asc" -> LocaleCompare(AreaKey(a), AreaKey(b))
    [] option = "area-desc" -> LocaleCompare(AreaKey(b), AreaKey(a))
    [] option = "category-asc" -> LocaleCompare(CategoryName(a), CategoryName(b))
    [] option = "category-desc" -> LocaleCompare(CategoryName(b), CategoryName(a))
    [] option = "recently-verified" -> GetTime(b.lastUpdated) - GetTime(a.lastUpdated)

\* Mutant of InsertSorted: the element goes before the elements it compares
\* equal to.
RECURSIVE InsertSorted_BeforeEquals(_, _, _)

InsertSorted_BeforeEquals(sorted, x, option) ==
  IF sorted = <<>> THEN <<x>>
  ELSE IF Compare(Head(sorted), x, option) < 0
       THEN <<Head(sorted)>> \o InsertSorted_BeforeEquals(Tail(sorted), x, option)
       ELSE <<x>> \o sorted

\* x is put into a sorted array after every element that does not compare
\* greater than it.
RECURSIVE InsertSorted(_, _, _)

InsertSorted(sorted, x, option) ==
  IF sorted = <<>> THEN <<x>>
  ELSE IF Compare(Head(sorted), x, option) <= 0
       THEN <<Head(sorted)>> \o InsertSorted(Tail(sorted), x, option)
       ELSE <<x>> \o sorted

\* Array.prototype.sort with the compare function of a sort option: a
\* stable sort, the elements taken in their input order.
RECURSIVE ArraySort(_, _)

ArraySort(list, option) ==
  IF list = <<>> THEN <<>>
  ELSE InsertSorted(ArraySort(SubSeq(list, 1, Len(list) - 1), option), list[Len(list)],
                    option)

\* Mutant of PassesSavedOnly: the saved-only toggle filters nothing.
PassesSavedOnly_Ignored(program, favorites, saved) == TRUE

\* The saved-only axis: favorites.includes(p.id) when the toggle is on.
PassesSavedOnly(program, favorites, saved) ==
  saved => Includes(favorites, program.id)

\* The category axis: p.category === selectedCategory when one is selected.
PassesCategory(program, category) ==
  Truthy(category) => program.category = category

\* p.areas.some(area => BROAD_AREAS.includes(area))
HasBroadArea(program) ==
  \E i \in 1..Len(program.areas) : Includes(BROAD_AREAS, program.areas[i])

\* Mutant of PassesArea: a county selects only the programs of that county.
PassesArea_Exclusive(program, area) ==
  Truthy(area) =>
    IF area = "none" THEN HasBroadArea(program) ELSE Includes(program.areas, area)

\* The area axis: 'none' keeps the programs with a broad area, a county
\* the programs of that county and those with a broad area.
PassesArea(program, area) ==
  Truthy(area) =>
    IF area = "none" THEN HasBroadArea(program)
    ELSE Includes(program.areas, area) \/ HasBroadArea(program)

\* The filter and sort settings of a render.
Settings(category, area, option, saved) ==
  [selectedCategory |-> category, selectedArea |-> area, sortBy |-> option,
   showSavedOnly |-> saved]

\* The three filter steps of filteredPrograms, applied one after the other.
Filtered(list, favorites, F) ==
  LET saved == SelectSeq(list, LAMBDA x : PassesSavedOnly(x, favorites, F.showSavedOnly))
      inCategory == SelectSeq(saved, LAMBDA x : PassesCategory(x, F.selectedCategory))
  IN SelectSeq(inCategory, LAMBDA x : PassesArea(x, F.selectedArea))

\* Whether a filter step made a new array: otherwise filtered is the
\* programs array itself.
FilterCopies(F) ==
  F.showSavedOnly \/ Truthy(F.selectedCategory) \/ Truthy(F.selectedArea)

\* Mutant of UseMemo: the filtered array is sorted without being copied.
UseMemo_SortInPlace(list, favorites, F) ==
  LET sorted == ArraySort(Filtered(list, favorites, F), F.sortBy)
  IN [value |-> sorted, programs |-> IF FilterCopies(F) THEN list ELSE sorted]

\* The useMemo callback of filteredPrograms: it sorts a copy of the
\* filtered array; value is what it returns, programs the programs array
\* after it ran.
UseMemo(list, favorites, F) ==
  [value |-> ArraySort(Filtered(list, favorites, F), F.sortBy), programs |-> list]

\* filteredPrograms as a function of its inputs.
FilteredPrograms(list, favorites, F) == UseMemo(list, favorites, F).value

\* derivedCategories: the known categories of the loaded programs.
DerivedCategories(list) ==
  { list[i].category : i \in 1..Len(list) } \cap DOMAIN CATEGORY_CONFIG

\* The screen renders with the given state: the memo is recomputed.
Render(list, favorites, F) ==
  LET memo == UseMemo(list, favorites, F)
  IN /\ browsePrograms' = memo.programs
     /\ filteredPrograms' = memo.value
     /\ browseFavorites' = favorites
     /\ selectedCategory' = F.selectedCategory
     /\ selectedArea' = F.selectedArea
     /\ sortBy' = F.sortBy
     /\ showSavedOnly' = F.showSavedOnly

\* The settings of the last render.
CurrentSettings == Settings(selectedCategory, selectedArea, sortBy, showSavedOnly)

\* loadData: getPrograms and getFavorites resolved, setPrograms and
\* setFavorites are called.
LoadData(programsData, favoritesData) ==
  Render(programsData, favoritesData, CurrentSettings)

\* A category chip is pressed: it is selected, or unselected if it was.
PressCategory(categoryId) ==
  /\ categoryId \in DerivedCategories(browsePrograms)
  /\ Render(browsePrograms, browseFavorites,
            [CurrentSettings EXCEPT !.selectedCategory =
               IF selectedCategory = categoryId THEN Null ELSE categoryId])

\* The "All" category chip is pressed.
PressAllCategories ==
  /\ selectedCategory # Null
  /\ Render(browsePrograms, browseFavorites,
            [CurrentSettings EXCEPT !.selectedCategory = Null])

\* A county chip, or the "None of the Above" chip, is pressed.
PressArea(areaId) ==
  Render(browsePrograms, browseFavorites,
         [CurrentSettings EXCEPT !.selectedArea =
            IF selectedArea = areaId THEN Null ELSE areaId])

\* The "All" area chip is pressed.
PressAllAreas ==
  /\ selectedArea # Null
  /\ Render(browsePrograms, browseFavorites, [CurrentSettings EXCEPT !.selectedArea = Null])

\* A sort option is chosen in the sort dialog.
ChooseSort(option) ==
  /\ option # sortBy
  /\ Render(browsePrograms, browseFavorites, [CurrentSettings EXCEPT !.sortBy = option])

\* The header's star button is pressed.
ToggleSavedOnly ==
  Render(browsePrograms, browseFavorites,
         [CurrentSettings EXCEPT !.showSavedOnly = ~showSavedOnly])

\* The "clear filters" button, shown while a filter is active, is pressed.
ClearFilters ==
  /\ FilterCopies(CurrentSettings)
  /\ Render(browsePrograms, browseFavorites, Settings(Null, Null, sortBy, FALSE))

(***************************************************************************)
(* Clearing the cache (APIService.clearCache, SettingsScreen's             *)
(* handleClearCache).                                                      *)
(***************************************************************************)
\* The keys of the five cached payloads.
PayloadKeys ==
  { CACHE_KEYS.PROGRAMS, CACHE_KEYS.CATEGORIES, CACHE_KEYS.ELIGIBILITY,
    CACHE_KEYS.AREAS, CACHE_KEYS.METADATA }

\* Mutant of ClearKeys: every key of CACHE_KEYS is removed.
ClearKeys_All == CacheKeyValues

\* Object.values(CACHE_KEYS).filter(key => key !== CACHE_KEYS.FAVORITES)
ClearKeys == CacheKeyValues \ {CACHE_KEYS.FAVORITES}

\* Mutant of MultiRemove: the whole storage is cleared (AsyncStorage.clear).
MultiRemove_Clear(st, keys) == [k \in DOMAIN st |-> NoItem]

\* AsyncStorage.multiRemove(keys)
MultiRemove(st, keys) == [k \in DOMAIN st |-> IF k \in keys THEN NoItem ELSE st[k]]

\* The clearCache call before the button is pressed. alert is the title of
\* the alert the handler raised when the call ended.
IdleClearCall == [pc |-> "idle", alert |-> "none"]

\* What an earlier session left in AsyncStorage at time 0: the five
\* payloads, two favorites, a recent search, a preset, the dark theme and
\* crash reporting switched off.
StoredSession ==
  [k \in StorageKeys |->
     IF k \in PayloadKeys THEN JSONstringify(CachedData("body1", 0))
     ELSE IF k = CACHE_KEYS.FAVORITES THEN JSONstringify(<<"a", "b">>)
     ELSE IF k = CACHE_KEYS.RECENT_SEARCHES THEN JSONstringify(<< <<"f", "o">> >>)
     ELSE IF k = CACHE_KEYS.FILTER_PRESETS THEN JSONstringify(SavedPresets(1))
     ELSE IF k = THEME_STORAGE_KEY THEN PlainItem("dark")
     ELSE PlainItem("false")]

\* The "Clear" button of the confirmation is pressed: clearCache is called
\* and awaits AsyncStorage.multiRemove.
ClearCache ==
  /\ clearCall.pc \in {"idle", "returned", "threw"}
  /\ clearCall' = [IdleClearCall EXCEPT !.pc = "removing"]
  /\ UNCHANGED storage

\* multiRemove landed: clearCache returns and the handler reports success.
ClearDone ==
  /\ clearCall.pc = "removing"
  /\ storage' = MultiRemove(storage, ClearKeys)
  /\ clearCall' = [clearCall EXCEPT !.pc = "returned", !.alert = "Success"]

\* type ThemeMode = 'light' | 'dark' | 'system'
ThemeModes == {"light", "dark", "system"}

\* setMode(newMode) of the theme context: its
\* AsyncStorage.setItem(THEME_STORAGE_KEY, newMode) landed.
SetMode(newMode) ==
  /\ storage[THEME_STORAGE_KEY] # PlainItem(newMode)
  /\ storage' = [storage EXCEPT ![THEME_STORAGE_KEY] = PlainItem(newMode)]
  /\ UNCHANGED clearCall

\* Boolean.prototype.toString
BooleanToString(b) == IF b THEN "true" ELSE "false"

\* setCrashReportingEnabled(enabled): its
\* AsyncStorage.setItem(CRASH_REPORTING_KEY, enabled.toString()) landed.
SetCrashReportingEnabled(enabled) ==
  /\ storage[CRASH_REPORTING_KEY] # PlainItem(BooleanToString(enabled))
  /\ storage' = [storage EXCEPT ![CRASH_REPORTING_KEY] =
                                  PlainItem(BooleanToString(enabled))]
  /\ UNCHANGED clearCall

\* multiRemove rejected: clearCache logs and rethrows, the handler reports
\* the failure.
ClearFail ==
  /\ clearCall.pc = "removing"
  /\ clearCall' = [clearCall EXCEPT !.pc = "threw", !.alert = "Error"]
  /\ UNCHANGED storage

(***************************************************************************)
(* Initial states and next-state relations.                                *)
(***************************************************************************)
\* The state of everything but AsyncStorage and the clock when the app
\* starts.
InitApp ==
  /\ calls = [c \in Calls |-> IdleCall]
  /\ favCalls = [p \in FavCallers |-> IdleFavCall]
  /\ toggles = [h \in Handlers |-> IdleToggle]
  /\ browseFavorites = <<>>
  /\ browseRendered = <<>>
  /\ searchFavorites = <<>>
  /\ detailIsFavorite = FALSE
  /\ searchQuery = <<>>
  /\ debounce = Armed(<<>>)
  /\ requestIdRef = 0
  /\ requests = [r \in RequestIds |-> NoRequest]
  /\ programs = <<>>
  /\ searched = FALSE
  /\ loading = FALSE
  /\ recentSearches = <<>>
  /\ recentLoads = 0
  /\ completions = <<>>
  /\ recentCalls = [p \in StoreClients |-> IdleRecentCall]
  /\ presetCalls = [p \in StoreClients |-> IdlePresetCall]
  /\ clearCall = IdleClearCall
  /\ getCalls = [g \in Getters |-> IdleGetCall]
  /\ browsePrograms = <<>>
  /\ selectedCategory = Null
  /\ selectedArea = Null
  /\ sortBy = "name-asc"
  /\ showSavedOnly = FALSE
  /\ filteredPrograms = <<>>

\* A fresh install: AsyncStorage holds nothing.
EmptyStorage == [k \in StorageKeys |-> NoItem]

Init ==
  /\ storage = EmptyStorage
  /\ now = 0
  /\ InitApp

NextFetch ==
  \/ \E c \in OneCaller, api \in FetchAPI, f \in BOOLEAN : FetchWithCache(c, api, f)
  \/ \E c \in OneCaller : CacheCheck(c)
  \/ \E c \in OneCaller, kind \in {"transport", "timeout"} : FetchReject(c, kind)
  \/ \E c \in OneCaller, ok \in BOOLEAN : FetchResolve(c, ok)
  \/ \E c \in OneCaller : JsonReject(c)
  \/ \E c \in OneCaller, d \in Payloads : JsonResolve(c, d)
  \/ \E c \in OneCaller : SaveDone(c)
  \/ \E c \in OneCaller : Fallback(c)
  \/ \E d \in {1, CACHE_DURATION} : Tick(d)

SpecFetch == Init /\ [][NextFetch]_vars

\* The favorites store under direct, interleaved use.
NextFav ==
  \/ \E p \in StoreClients, id \in ProgramIds :
       FavCall(p, "add", id) /\ UNCHANGED <<storage, fetchVars, screenVars, searchVars, storeVars, listVars>>
  \/ \E p \in StoreClients, id \in ProgramIds :
       FavCall(p, "remove", id) /\ UNCHANGED <<storage, fetchVars, screenVars, searchVars, storeVars, listVars>>
  \/ \E p \in StoreClients : FavRead(p) /\ UNCHANGED <<fetchVars, screenVars, searchVars, storeVars, listVars>>
  \/ \E p \in StoreClients : FavWrite(p) /\ UNCHANGED <<fetchVars, screenVars, searchVars, storeVars, listVars>>
  \/ \E p \in StoreClients : FavWriteFail(p) /\ UNCHANGED <<fetchVars, screenVars, searchVars, storeVars, listVars>>

SpecFav == Init /\ [][NextFav]_vars

\* BrowseScreen's favorite toggle, two presses overlapping.
NextBrowseToggle ==
  \/ \E h \in Handlers, id \in ListedPrograms :
       Toggle(h, "Browse", id) /\ UNCHANGED <<fetchVars, searchVars, storeVars, listVars>>
  \/ \E h \in Handlers : ToggleRead(h) /\ UNCHANGED <<fetchVars, searchVars, storeVars, listVars>>
  \/ \E h \in Handlers : ToggleWrite(h) /\ UNCHANGED <<fetchVars, searchVars, storeVars, listVars>>
  \/ \E h \in Handlers : ToggleWriteFail(h) /\ UNCHANGED <<fetchVars, searchVars, storeVars, listVars>>
  \/ BrowseRender /\ UNCHANGED <<fetchVars, searchVars, storeVars, listVars>>

SpecBrowseToggle == Init /\ [][NextBrowseToggle]_vars

\* BrowseScreen's toggles over a storage that never fails.
NextBrowseReliable ==
  \/ \E h \in Handlers, id \in ListedPrograms :
       Toggle(h, "Browse", id) /\ UNCHANGED <<fetchVars, searchVars, storeVars, listVars>>
  \/ \E h \in Handlers : ToggleRead(h) /\ UNCHANGED <<fetchVars, searchVars, storeVars, listVars>>
  \/ \E h \in Handlers : ToggleWrite(h) /\ UNCHANGED <<fetchVars, searchVars, storeVars, listVars>>
  \/ BrowseRender /\ UNCHANGED <<fetchVars, searchVars, storeVars, listVars>>

SpecBrowseReliable == Init /\ [][NextBrowseReliable]_vars

\* The favorite toggles of the three screens, one press at a time.
NextScreens ==
  \/ \E screen \in {"Browse", "Search", "Detail"}, id \in ListedPrograms :
       Toggle("h1", screen, id) /\ UNCHANGED <<fetchVars, searchVars, storeVars, listVars>>
  \/ ToggleRead("h1") /\ UNCHANGED <<fetchVars, searchVars, storeVars, listVars>>
  \/ ToggleWrite("h1") /\ UNCHANGED <<fetchVars, searchVars, storeVars, listVars>>
  \/ ToggleWriteFail("h1") /\ UNCHANGED <<fetchVars, searchVars, storeVars, listVars>>
  \/ BrowseRender /\ UNCHANGED <<fetchVars, searchVars, storeVars, listVars>>

SpecScreens == Init /\ [][NextScreens]_vars

\* The variables the SearchScreen's search leaves alone.
notSearchVars == <<fetchVars, favVars, storeVars, listVars>>

\* The SearchScreen's search.
NextSearch ==
  \/ \E text \in SearchTexts : TypeQuery(text) /\ UNCHANGED notSearchVars
  \/ DebounceFire /\ UNCHANGED notSearchVars
  \/ HandleSearch /\ UNCHANGED notSearchVars
  \/ ClearSearch /\ UNCHANGED notSearchVars
  \/ \E i \in 1..MAX_RECENT_SEARCHES : RecentSearchPress(i) /\ UNCHANGED notSearchVars
  \/ \E r \in RequestIds : SearchResolve(r) /\ UNCHANGED notSearchVars
  \/ \E r \in RequestIds : SearchReject(r) /\ UNCHANGED notSearchVars
  \/ \E r \in RequestIds : RecentRead(r) /\ UNCHANGED notSearchVars
  \/ \E r \in RequestIds : RecentWrite(r) /\ UNCHANGED notSearchVars
  \/ LoadRecentSearches /\ UNCHANGED notSearchVars

SpecSearch == Init /\ [][NextSearch]_vars

\* The variables the recent-search store's callers leave alone.
notRecentVars ==
  <<fetchVars, favVars, searchVars, presetCalls, clearCall, getCalls, listVars>>

\* The recent-search store starts with one of the initial lists.
InitRecent ==
  /\ storage \in { [EmptyStorage EXCEPT ![CACHE_KEYS.RECENT_SEARCHES] = JSONstringify(l)] :
                     l \in InitialRecents } \cup {EmptyStorage}
  /\ now = 0
  /\ InitApp

NextRecent ==
  \/ \E p \in StoreClients, q \in RecentQueries :
       AddRecentSearch(p, q) /\ UNCHANGED notRecentVars
  \/ \E p \in StoreClients : RecentStoreRead(p) /\ UNCHANGED notRecentVars
  \/ \E p \in StoreClients : RecentStoreWrite(p) /\ UNCHANGED notRecentVars
  \/ \E p \in StoreClients : ClearRecentSearches(p) /\ UNCHANGED notRecentVars
  \/ \E p \in StoreClients : RecentStoreRemove(p) /\ UNCHANGED notRecentVars
  \/ \E p \in StoreClients : RecentStoreFail(p) /\ UNCHANGED notRecentVars

SpecRecent == InitRecent /\ [][NextRecent]_vars

\* The variables the preset store's callers leave alone.
notPresetVars ==
  <<calls, favVars, searchVars, recentCalls, clearCall, getCalls, listVars>>

\* The preset store starts with one of the initial collections, at the
\* time PresetEpoch.
InitPreset ==
  /\ storage \in { [EmptyStorage EXCEPT ![CACHE_KEYS.FILTER_PRESETS] = JSONstringify(l)] :
                     l \in InitialPresets }
  /\ now = PresetEpoch
  /\ InitApp

NextPreset ==
  \/ \E p \in StoreClients, name \in PresetNames, filters \in PresetFilters :
       SaveFilterPreset(p, name, filters) /\ UNCHANGED notPresetVars
  \/ \E p \in StoreClients, id \in DeleteIds :
       DeleteFilterPreset(p, id) /\ UNCHANGED notPresetVars
  \/ \E p \in StoreClients : PresetRead(p) /\ UNCHANGED notPresetVars
  \/ \E p \in StoreClients : PresetWrite(p) /\ UNCHANGED notPresetVars
  \/ \E p \in StoreClients : PresetWriteFail(p) /\ UNCHANGED notPresetVars
  \/ PresetTick /\ UNCHANGED notPresetVars

SpecPreset == InitPreset /\ [][NextPreset]_vars

\* The variables the BrowseScreen's list leaves alone.
notListVars ==
  <<storage, fetchVars, favCalls, toggles, browseRendered, searchFavorites,
    detailIsFavorite, searchVars, storeVars>>

\* The areas of the area chips pressed in the model.
PressedAreas == {"Alameda County", "San Francisco", "Marin County", "none"}

\* The BrowseScreen's list under loads and changes of the filter and sort
\* settings.
NextBrowseList ==
  \/ \E l \in BrowseCatalogs, f \in BrowseFavoriteLists :
       LoadData(l, f) /\ UNCHANGED notListVars
  \/ \E c \in DOMAIN CATEGORY_CONFIG : PressCategory(c) /\ UNCHANGED notListVars
  \/ PressAllCategories /\ UNCHANGED notListVars
  \/ \E a \in PressedAreas : PressArea(a) /\ UNCHANGED notListVars
  \/ PressAllAreas /\ UNCHANGED notListVars
  \/ \E o \in SortOptions : ChooseSort(o) /\ UNCHANGED notListVars
  \/ ToggleSavedOnly /\ UNCHANGED notListVars
  \/ ClearFilters /\ UNCHANGED notListVars

SpecBrowseList == Init /\ [][NextBrowseList]_vars

\* The variables clearCache and the favorites store's caller leave alone.
notClearVars ==
  <<fetchVars, screenVars, searchVars, recentCalls, presetCalls, getCalls, listVars>>

\* AsyncStorage is empty or holds what an earlier session left.
InitClear ==
  /\ storage \in {EmptyStorage, StoredSession}
  /\ now = 0
  /\ InitApp

\* clearCache next to the fetch layer and the favorites store.
NextClear ==
  \/ \E c \in OneCaller, api \in FetchAPI : FetchWithCache(c, api, FALSE)
  \/ \E c \in OneCaller : CacheCheck(c)
  \/ \E c \in OneCaller : FetchReject(c, "transport")
  \/ \E c \in OneCaller : FetchResolve(c, TRUE)
  \/ \E c \in OneCaller : JsonResolve(c, "body2")
  \/ \E c \in OneCaller : SaveDone(c)
  \/ \E c \in OneCaller : Fallback(c)
  \/ \E op \in {"add", "remove"}, id \in {"a", "c"} :
       FavCall("p1", op, id) /\ UNCHANGED <<storage, clearCall, notClearVars>>
  \/ FavRead("p1") /\ UNCHANGED <<clearCall, notClearVars>>
  \/ FavWrite("p1") /\ UNCHANGED <<clearCall, notClearVars>>
  \/ ClearCache /\ UNCHANGED <<favCalls, notClearVars>>
  \/ ClearDone /\ UNCHANGED <<favCalls, notClearVars>>
  \/ ClearFail /\ UNCHANGED <<favCalls, notClearVars>>

SpecClear == InitClear /\ [][NextClear]_vars

\* The variables the favorites store's direct callers leave alone.
notFavVars == <<fetchVars, screenVars, searchVars, storeVars, listVars>>

\* Two callers of addFavorite, their calls overlapping or not, with storage
\* working.
NextAdds ==
  \/ \E p \in StoreClients, id \in ProgramIds :
       FavCall(p, "add", id) /\ UNCHANGED <<storage, notFavVars>>
  \/ \E p \in StoreClients : FavRead(p) /\ UNCHANGED notFavVars
  \/ \E p \in StoreClients : FavWrite(p) /\ UNCHANGED notFavVars

SpecAdds == Init /\ [][NextAdds]_vars

\* Two fetchWithCache calls for the programs, overlapping or not, while
\* milliseconds pass.
NextFetchPair ==
  \/ \E c \in Calls : FetchWithCache(c, ProgramsAPI, FALSE)
  \/ \E c \in Calls : CacheCheck(c)
  \/ \E c \in Calls : FetchReject(c, "transport")
  \/ \E c \in Calls : FetchResolve(c, TRUE)
  \/ \E c \in Calls, d \in Payloads : JsonResolve(c, d)
  \/ \E c \in Calls : SaveDone(c)
  \/ \E c \in Calls : Fallback(c)
  \/ Tick(1)

SpecFetchPair == Init /\ [][NextFetchPair]_vars

\* clearCache next to the preferences kept under other keys and to a caller
\* of addRecentSearch.
NextPreferences ==
  \/ AddRecentSearch("p1", <<"b", "u">>) /\ UNCHANGED notRecentVars
  \/ RecentStoreRead("p1") /\ UNCHANGED notRecentVars
  \/ RecentStoreWrite("p1") /\ UNCHANGED notRecentVars
  \/ ClearCache /\ UNCHANGED <<favCalls, notClearVars>>
  \/ ClearDone /\ UNCHANGED <<favCalls, notClearVars>>
  \/ ClearFail /\ UNCHANGED <<favCalls, notClearVars>>
  \/ \E newMode \in ThemeModes : SetMode(newMode) /\ UNCHANGED <<favCalls, notClearVars>>
  \/ \E enabled \in BOOLEAN :
       SetCrashReportingEnabled(enabled) /\ UNCHANGED <<favCalls, notClearVars>>

SpecPreferences == InitClear /\ [][NextPreferences]_vars

\* One caller of addFavorite over a storage whose reads and writes may fail.
NextAddFaults ==
  \/ \E id \in ProgramIds : FavCall("p1", "add", id) /\ UNCHANGED <<storage, notFavVars>>
  \/ FavRead("p1") /\ UNCHANGED notFavVars
  \/ FavReadFail("p1") /\ UNCHANGED notFavVars
  \/ FavWrite("p1") /\ UNCHANGED notFavVars
  \/ FavWriteFail("p1") /\ UNCHANGED notFavVars

SpecAddFaults == InitClear /\ [][NextAddFaults]_vars

\* The recent searches an earlier session left.
ChipQueries == << <<"f", "o">>, <<"b", "u">>, <<"z", "z">> >>

\* The SearchScreen opens over the recent searches of an earlier session.
InitChips ==
  /\ storage = [EmptyStorage EXCEPT ![CACHE_KEYS.RECENT_SEARCHES] =
                                     JSONstringify(ChipQueries)]
  /\ now = 0
  /\ InitApp

\* The SearchScreen used through its recent-search chips alone.
NextChips ==
  \/ FocusScreen /\ UNCHANGED notSearchVars
  \/ LoadRecentSearches /\ UNCHANGED notSearchVars
  \/ \E i \in 1..MAX_RECENT_SEARCHES : RecentSearchPress(i) /\ UNCHANGED notSearchVars
  \/ DebounceFire /\ UNCHANGED notSearchVars
  \/ \E r \in RequestIds : SearchResolve(r) /\ UNCHANGED notSearchVars
  \/ \E r \in RequestIds : SearchReject(r) /\ UNCHANGED notSearchVars
  \/ \E r \in RequestIds : RecentRead(r) /\ UNCHANGED notSearchVars
  \/ \E r \in RequestIds : RecentWrite(r) /\ UNCHANGED notSearchVars

SpecChips == InitChips /\ [][NextChips]_vars

\* The fetch layer and the getters over a storage whose reads and writes may
\* fail.
NextStorageFaults ==
  \/ \E c \in OneCaller : FetchWithCache(c, ProgramsAPI, FALSE)
  \/ \E c \in OneCaller : CacheCheck(c)
  \/ \E c \in OneCaller : CacheCheckFail(c)
  \/ \E c \in OneCaller : FetchReject(c, "transport")
  \/ \E c \in OneCaller : FetchResolve(c, TRUE)
  \/ \E c \in OneCaller : JsonResolve(c, "body2")
  \/ \E c \in OneCaller : SaveDone(c)
  \/ \E c \in OneCaller : SaveFail(c)
  \/ \E c \in OneCaller : Fallback(c)
  \/ \E c \in OneCaller : FallbackFail(c)
  \/ \E g \in Getters : GetCall(g)
  \/ GetFavoritesRead
  \/ GetFavoritesFail
  \/ CacheSizeKeys
  \/ CacheSizeItems
  \/ CacheSizeFail

SpecStorageFaults == InitClear /\ [][NextStorageFaults]_vars

(***************************************************************************)
(* Properties of the cache-backed fetch layer.                             *)
(***************************************************************************)
\* The entry stored under the key of call c.
EntryOf(c) == JSONparse(storage[calls[c].key])

\* Call c takes the step that leaves position p.
Leaves(c, p) == calls[c].pc = p /\ calls'[c].pc # p

\* C1: a call with forceRefresh = false whose cache check finds an entry with
\* now - timestamp <= 24h returns exactly that entry's payload and has issued
\* no network request.
C1_FreshHitNoNetwork ==
  [][\A c \in Calls :
       ( /\ Leaves(c, "cacheRead")
         /\ HasItem(storage, calls[c].key)
         /\ now - EntryOf(c).timestamp <= CACHE_DURATION )
       => /\ ~calls[c].force
          /\ calls'[c].pc = "done"
          /\ calls'[c].result = EntryOf(c).data
          /\ calls'[c].netReqs = 0]_vars

\* A call was served, without a network request, from an entry whose age is
\* the whole cache duration.
C1_Witness ==
  \E c \in Calls :
    /\ calls[c].pc = "done" /\ ~calls[c].force /\ calls[c].via = "fresh"
    /\ calls[c].netReqs = 0
    /\ calls[c].age = CACHE_DURATION
    /\ calls[c].result = EntryOf(c).data

\* C2: whichever way the network attempt fails (transport error, timeout,
\* non-2xx status, parse error) the call goes to the fallback read, which
\* returns the cached payload if the key has any entry, whatever its age, and
\* otherwise rethrows the failure.
C2_FailureFallsBack ==
  [][\A c \in Calls :
       /\ (calls[c].pc \in {"net", "json"} /\ calls'[c].pc \notin {"net", "json", "save"})
          => calls'[c].pc = "fallback" /\ calls'[c].err \in FailureKinds
       /\ calls'[c].err # "none"
          => /\ calls'[c].pc \in {"fallback", "done"}
             /\ calls'[c].pc = "done" => calls'[c].via \in {"stale", "error"}
       /\ Leaves(c, "fallback")
          => /\ calls'[c].pc = "done"
             /\ calls'[c].err = calls[c].err
             /\ IF HasItem(storage, calls[c].key)
                THEN calls'[c].result = EntryOf(c).data
                ELSE calls'[c].result = Threw]_vars

\* A timed-out call returned the payload of an entry older than the cache
\* duration.
C2_Witness ==
  \E c \in Calls :
    /\ calls[c].pc = "done" /\ calls[c].err = "timeout" /\ calls[c].via = "stale"
    /\ calls[c].age > CACHE_DURATION
    /\ calls[c].result = EntryOf(c).data

\* C3: a call that completed performed exactly one cache write if its network
\* fetch succeeded and none if it was served from a fresh entry, from the
\* stale fallback, or failed; storage changes only by such a write.
C3_OneWritePerSuccessfulFetch ==
  [][/\ \A c \in Calls :
          /\ calls'[c].pc = "done"
             => calls'[c].writes = (IF calls'[c].via = "network" THEN 1 ELSE 0)
          /\ calls'[c].pc # "done" => calls'[c].writes = 0
          /\ Leaves(c, "save") => storage'[calls[c].key] # NoItem
     /\ \A k \in StorageKeys :
          storage'[k] # storage[k]
          => \E c \in Calls : Leaves(c, "save") /\ calls[c].key = k]_vars

\* A call whose network fetch succeeded has written the cache once.
C3_Witness ==
  \E c \in Calls :
    /\ calls[c].pc = "done" /\ calls[c].via = "network" /\ calls[c].writes = 1
    /\ storage[calls[c].key] = JSONstringify(CachedData(calls[c].result, calls[c].ts))

\* C4: the cache check serves an entry without a network call if and only if
\* now - timestamp <= CACHE_DURATION; an older entry is not served by the
\* cache check but is still returned by the failure fallback.
C4_FreshIffWithinDuration ==
  [][\A c \in Calls :
       /\ Leaves(c, "cacheRead")
          => ( (calls'[c].pc = "done" /\ calls'[c].via = "fresh" /\ calls'[c].netReqs = 0)
               <=> (HasItem(storage, calls[c].key)
                    /\ now - EntryOf(c).timestamp <= CACHE_DURATION) )
       /\ (Leaves(c, "fallback") /\ HasItem(storage, calls[c].key))
          => calls'[c].via = "stale" /\ calls'[c].result = EntryOf(c).data]_vars

\* An entry one millisecond older than the cache duration was refused by the
\* cache check and returned by the fallback.
C4_Witness ==
  \E c \in Calls :
    /\ calls[c].pc = "done" /\ ~calls[c].force /\ calls[c].via = "stale"
    /\ calls[c].netReqs = 1
    /\ calls[c].age = CACHE_DURATION + 1

\* C5: a call with forceRefresh = true issues a network request whatever the
\* cache holds; when the fetch succeeds it returns the network payload and
\* replaces the stored entry with that payload and the time of the save.
C5_ForceRefreshFetches ==
  [][\A c \in Calls :
       /\ (calls[c].pc \in {"idle", "done"} /\ calls'[c] # calls[c] /\ calls'[c].force)
          => calls'[c].pc = "net" /\ calls'[c].netReqs = 1
       /\ (calls'[c].force /\ calls'[c].pc # "idle")
          => calls'[c].netReqs = 1 /\ calls'[c].via # "fresh"
       /\ (calls[c].force /\ Leaves(c, "json") /\ calls'[c].pc = "save")
          => calls'[c].ts = now /\ calls'[c].data \in Payloads
       /\ (calls[c].force /\ Leaves(c, "save"))
          => /\ calls'[c].pc = "done"
             /\ calls'[c].result = calls[c].data
             /\ storage'[calls[c].key]
                  = JSONstringify(CachedData(calls[c].data, calls[c].ts))]_vars

\* A forced call made while a fresh entry existed fetched a different payload
\* from the network and stored it.
C5_Witness ==
  \E c \in Calls :
    /\ calls[c].pc = "done" /\ calls[c].force /\ calls[c].freshAtCall
    /\ calls[c].via = "network" /\ calls[c].netReqs = 1
    /\ calls[c].result = "body2"
    /\ storage[calls[c].key] = JSONstringify(CachedData("body2", now))
    /\ now > 0

(***************************************************************************)
(* Properties of the favorites store.                                      *)
(***************************************************************************)
\* The persisted favorites list.
Persisted == GetFavorites(storage)

\* C9: the persisted favorites list never holds the same program id twice,
\* whatever the sequence and interleaving of addFavorite and removeFavorite.
C9_NoDuplicateFavorites == NoDuplicates(Persisted)

\* Two interleaved calls are in flight over a persisted list of two ids, one
\* of them an addFavorite of an id the list already holds.
C9_Witness ==
  /\ Len(Persisted) = 2
  /\ \E p, q \in StoreClients :
       /\ p # q
       /\ favCalls[p].pc = "write" /\ favCalls[p].op = "add"
       /\ Includes(Persisted, favCalls[p].id)
       /\ favCalls[q].pc = "returned" /\ favCalls[q].op = "add" /\ favCalls[q].wrote = 1

\* C10: addFavorite(id) that reads a list holding id returns without writing
\* and leaves storage as it is; one that reads a list without id writes that
\* list with id appended at its end.
C10_AddIsNoOpOrAppend ==
  [][\A p \in StoreClients :
       /\ (favCalls[p].pc = "read" /\ favCalls[p].op = "add" /\ favCalls'[p] # favCalls[p])
          => IF Includes(Persisted, favCalls[p].id)
             THEN /\ favCalls'[p].pc = "returned"
                  /\ favCalls'[p].wrote = 0
                  /\ storage' = storage
             ELSE /\ favCalls'[p].pc = "write"
                  /\ favCalls'[p].read = Persisted
                  /\ storage' = storage
       /\ (favCalls[p].pc = "write" /\ favCalls[p].op = "add" /\ favCalls'[p].pc = "returned")
          => /\ GetFavorites(storage') = Append(favCalls[p].read, favCalls[p].id)
             /\ Persisted = favCalls[p].read
                => /\ Len(GetFavorites(storage')) = Len(Persisted) + 1
                   /\ SubSeq(GetFavorites(storage'), 1, Len(Persisted)) = Persisted
                   /\ GetFavorites(storage')[Len(Persisted) + 1] = favCalls[p].id]_vars

\* An addFavorite appended a third id behind two ids whose order it kept.
C10_Witness ==
  \E p \in StoreClients :
    /\ favCalls[p].pc = "returned" /\ favCalls[p].op = "add" /\ favCalls[p].wrote = 1
    /\ Len(Persisted) = 3
    /\ Persisted[3] = favCalls[p].id
    /\ Persisted[1] = "b"
    /\ \A q \in StoreClients \ {p} : favCalls[q].pc = "idle"

(***************************************************************************)
(* Properties of the screens' favorite toggles.                            *)
(***************************************************************************)
\* Handler h is pressed in this step.
Presses(h) == toggles[h].pc \in {"idle", "done"} /\ toggles'[h].pc = "awaiting"

\* The persistence call of handler h fails in this step.
FailsNow(h) == toggles[h].pc = "awaiting" /\ toggles'[h].pc = "done" /\ toggles'[h].failed

\* C7: a BrowseScreen toggle of id flips the favorited state shown for id at
\* once; when its persistence call fails and no other toggle of id ran
\* meanwhile, the state shown for id is again what it was before the toggle.
C7_BrowseToggleRollsBack ==
  [][\A h \in Handlers :
       /\ (Presses(h) /\ toggles'[h].screen = "Browse")
          => /\ Includes(browseFavorites', toggles'[h].id)
                  = ~Includes(browseFavorites, toggles'[h].id)
             /\ toggles'[h].pre = Includes(browseFavorites, toggles'[h].id)
       /\ (FailsNow(h) /\ toggles[h].screen = "Browse" /\ toggles'[h].alone)
          => /\ Includes(browseFavorites, toggles[h].id) = ~toggles[h].pre
             /\ Includes(browseFavorites', toggles[h].id) = toggles[h].pre]_vars

\* An addFavorite issued by a BrowseScreen toggle threw, and the program is
\* shown as not favorited again while another program stays favorited.
C7_Witness ==
  \E h \in Handlers :
    /\ toggles[h].pc = "done" /\ toggles[h].screen = "Browse"
    /\ toggles[h].failed /\ toggles[h].alone /\ ~toggles[h].pre
    /\ favCalls[h].pc = "threw" /\ favCalls[h].op = "add"
    /\ ~Includes(browseFavorites, toggles[h].id)
    /\ Len(browseFavorites) = 1

\* C8: on every screen, a toggle whose persistence call failed leaves the
\* favorited state shown for its program as it was before the toggle and has
\* raised an alert.
C8_FailedToggleRevertsAndAlerts ==
  \A h \in Handlers :
    (toggles[h].pc = "done" /\ toggles[h].failed)
    => /\ Visible(toggles[h].screen, toggles[h].id) = toggles[h].pre
       /\ toggles[h].alerted

(***************************************************************************)
(* Properties of the SearchScreen's search.                                *)
(***************************************************************************)
\* Request r is issued in this step.
Issued(r) == requests[r].pc = "none" /\ requests'[r].pc # "none"

\* The response of request r arrives in this step.
Responds(r) == requests[r].pc = "searching" /\ requests'[r].pc # "searching"

\* C6: every search request is stamped with a counter value larger than the
\* stamps of all earlier requests; its response changes the visible results
\* only if its stamp is the counter's value when it arrives, and then the
\* results are its own, so a response that arrives after a later request's
\* does not replace that request's results.
C6_LatestRequestWins ==
  [][/\ requestIdRef' >= requestIdRef
     /\ \A r \in RequestIds :
          /\ Issued(r)
             => /\ r = requestIdRef' /\ r = requestIdRef + 1
                /\ \A q \in RequestIds : requests[q].pc # "none" => q < r
          /\ Responds(r)
             => IF r = requestIdRef /\ requests'[r].outcome = "resolved"
                THEN programs' = SearchPrograms(requests[r].query) /\ searched'
                ELSE programs' = programs /\ searched' = searched]_vars

\* Request 2 was answered before request 1, both successfully, and the
\* visible results are those of request 2, which differ from request 1's.
C6_Witness ==
  /\ requestIdRef = 2
  /\ completions = <<2, 1>>
  /\ requests[1].outcome = "resolved" /\ requests[2].outcome = "resolved"
  /\ programs = SearchPrograms(requests[2].query)
  /\ programs # SearchPrograms(requests[1].query)
  /\ Len(programs) > 0 /\ Len(SearchPrograms(requests[1].query)) > 0

(***************************************************************************)
(* Properties of the recent-search store.                                  *)
(***************************************************************************)
\* The persisted recent-search list.
PersistedRecents == GetRecentSearches(storage)

\* Whether two queries are equal up to letter case.
SameQuery(x, y) == ToLowerCase(x) = ToLowerCase(y)

\* C11: the persisted recent-search list never holds more than 5 entries,
\* whatever the interleaving of addRecentSearch and clearRecentSearches
\* calls, starting from a list of at most 5 entries.
C11_AtMostFiveRecents == Len(PersistedRecents) <= 5

\* A query that was not in a full list has been added: it is in front, the
\* list still has five entries and the oldest one is gone.
C11_Witness ==
  /\ \E p \in StoreClients :
       /\ recentCalls[p].pc = "returned" /\ recentCalls[p].wrote = 1
       /\ recentCalls[p].query = <<"e", "f">>
  /\ PersistedRecents =
       << <<"e", "f">>, <<"b", "u">>, <<"z", "z">>, <<"a", "b">>, <<"c", "d">> >>

\* C12: addRecentSearch(q) with a query of 2 characters or more writes q
\* followed by the list it read without the entries equal to q up to letter
\* case, cut to its first 5 entries; with a shorter query it returns without
\* writing and the list is unchanged.
C12_AddRecentSearchContract ==
  [][\A p \in StoreClients :
       LET call == recentCalls[p]
           q == recentCalls'[p].query
           kept == SelectSeq(call.read, LAMBDA x : ~SameQuery(x, call.query))
           expected == <<call.query>> \o kept
       IN /\ (RecentQuiet(p) /\ recentCalls'[p] # call /\ recentCalls'[p].op = "add"
                 /\ Len(q) < 2)
             => /\ recentCalls'[p].pc = "returned" /\ recentCalls'[p].wrote = 0
                /\ storage' = storage
          /\ (call.pc = "write" /\ recentCalls'[p].wrote = 1)
             => /\ Len(call.query) >= 2
                /\ PersistedRecents' =
                     [i \in 1..(IF Len(expected) < 5 THEN Len(expected) ELSE 5) |->
                        expected[i]]
                /\ (\E i \in 1..Len(call.read) : SameQuery(call.read[i], call.query))
                   => Len(PersistedRecents') = Len(call.read)]_vars

\* A query already in a full list, in another letter case, has been added
\* again: it moved to the front and the list did not grow.
C12_Witness ==
  /\ \E p \in StoreClients :
       /\ recentCalls[p].pc = "returned" /\ recentCalls[p].wrote = 1
       /\ recentCalls[p].query = <<"F", "O">>
  /\ PersistedRecents =
       << <<"F", "O">>, <<"b", "u">>, <<"z", "z">>, <<"a", "b">>, <<"c", "d">> >>

(***************************************************************************)
(* Properties of the filter-preset store.                                  *)
(***************************************************************************)
\* The persisted filter-preset collection.
PersistedPresets == GetFilterPresets(storage)

\* Whether a name is empty or holds nothing but spaces.
Blank(name) == \A i \in 1..Len(name) : name[i] = " "

\* Caller p calls saveFilterPreset in this step.
SavesNow(p) ==
  /\ PresetQuiet(p) /\ presetCalls'[p] # presetCalls[p]
  /\ presetCalls'[p].op = "save"

\* The read of caller p's saveFilterPreset call returns in this step.
SaveReadsNow(p) ==
  /\ presetCalls[p].pc = "read" /\ presetCalls[p].op = "save"
  /\ presetCalls'[p].pc # "read"

\* Caller p's call has returned null without a write, and the collection is
\* as it was.
RejectedNow(p) ==
  /\ presetCalls'[p].pc = "returned" /\ presetCalls'[p].result = NoPreset
  /\ presetCalls'[p].wrote = 0
  /\ storage' = storage

\* C13: saveFilterPreset returns null, writes nothing and leaves the
\* collection as it was when the name is empty or whitespace-only, and when
\* the collection it read holds 10 presets; no preset is evicted.
C13_SaveRejectedWithoutWrite ==
  [][\A p \in StoreClients :
       /\ (SavesNow(p) /\ Blank(presetCalls'[p].name)) => RejectedNow(p)
       /\ (SaveReadsNow(p) /\ Len(PersistedPresets) = 10) => RejectedNow(p)]_vars

\* One save was turned down because the collection holds 10 presets, another
\* because its name is a single space; the collection still holds the 9
\* presets it started with.
C13_Witness ==
  /\ Len(PersistedPresets) = 10
  /\ SubSeq(PersistedPresets, 2, 10) = SavedPresets(9)
  /\ presetCalls["p1"].pc = "returned" /\ presetCalls["p1"].op = "save"
  /\ presetCalls["p1"].logged = "warn" /\ presetCalls["p1"].result = NoPreset
  /\ presetCalls["p2"].pc = "returned" /\ presetCalls["p2"].op = "save"
  /\ presetCalls["p2"].name = <<" ">> /\ presetCalls["p2"].result = NoPreset

\* C14: the persisted filter-preset collection never holds more than 10
\* presets, whatever the interleaving of saveFilterPreset and
\* deleteFilterPreset calls.
C14_AtMostTenPresets == Len(PersistedPresets) <= 10

\* Two saves both read the collection while it held 9 presets: the first
\* has written its 10 presets and returned, the second is about to write
\* its own 10.
C14_Witness ==
  /\ presetCalls["p1"].pc = "returned" /\ presetCalls["p1"].wrote = 1
  /\ presetCalls["p1"].op = "save"
  /\ PersistedPresets = presetCalls["p1"].result \o SavedPresets(9)
  /\ presetCalls["p2"].pc = "write" /\ presetCalls["p2"].op = "save"
  /\ presetCalls["p2"].list = presetCalls["p2"].preset \o SavedPresets(9)

(***************************************************************************)
(* Properties of the BrowseScreen's derived list.                          *)
(***************************************************************************)
\* The programs of a list, as a set.
Members(list) == { list[i] : i \in 1..Len(list) }

\* The number of times x occurs in a list.
Occurrences(list, x) == Cardinality({ i \in 1..Len(list) : list[i] = x })

\* The first position of x in a list.
PositionIn(list, x) == CHOOSE i \in 1..Len(list) : list[i] = x /\ \A j \in 1..(i - 1) : list[j] # x

\* Whether a program carries one of the broad-scope tags.
BroadScope(program) ==
  \E i \in 1..Len(program.areas) :
    program.areas[i] \in {"Bay Area", "Bay Area-wide", "Statewide", "California", "Nationwide"}

\* Whether a program carries the tag of a county.
InCounty(program, county) == \E i \in 1..Len(program.areas) : program.areas[i] = county

\* C15: the derivation applied to its own output, with the same favorites
\* and the same filter and sort settings, gives that output again.
C15_DerivationIdempotent ==
  FilteredPrograms(filteredPrograms, browseFavorites, CurrentSettings) = filteredPrograms

\* A filter is active and dropped a program, the sort changed the order of
\* the programs left, and two of them have the same name.
C15_Witness ==
  /\ sortBy = "name-desc" /\ selectedArea = "Alameda County"
  /\ Len(filteredPrograms) = 3 /\ Len(browsePrograms) = 4
  /\ filteredPrograms # Filtered(browsePrograms, browseFavorites, CurrentSettings)
  /\ \E i, j \in 1..Len(filteredPrograms) :
       i # j /\ filteredPrograms[i].name = filteredPrograms[j].name

\* C16: with a county selected and no other filter active, every program
\* with a broad-scope tag is in the derived list, and a program is left out
\* only if it has neither the county's tag nor a broad-scope tag.
C16_CountyIncludesBroadScope ==
  (/\ selectedArea # Null /\ selectedArea # "none"
   /\ selectedCategory = Null /\ ~showSavedOnly)
  => \A x \in Members(browsePrograms) :
       /\ BroadScope(x) => x \in Members(filteredPrograms)
       /\ x \notin Members(filteredPrograms)
          => ~InCounty(x, selectedArea) /\ ~BroadScope(x)

\* A county no program is tagged with is selected: the program tagged only
\* "Statewide" is listed, the program of another county is not.
C16_Witness ==
  /\ selectedArea = "Marin County" /\ selectedCategory = Null /\ ~showSavedOnly
  /\ ProgramB.areas = <<"Statewide">> /\ ProgramB \in Members(filteredPrograms)
  /\ ProgramA \in Members(browsePrograms) /\ ProgramA \notin Members(filteredPrograms)

\* C17: the programs of the derived list are exactly the programs that pass
\* the saved-only axis, the category axis and the area axis together, an
\* axis that is off passing every program.
C17_FiltersAreConjunctive ==
  Members(filteredPrograms) =
    { x \in Members(browsePrograms) :
        /\ ~showSavedOnly \/ (\E i \in 1..Len(browseFavorites) : browseFavorites[i] = x.id)
        /\ selectedCategory = Null \/ x.category = selectedCategory
        /\ \/ selectedArea = Null
           \/ selectedArea = "none" /\ BroadScope(x)
           \/ selectedArea # "none" /\ (InCounty(x, selectedArea) \/ BroadScope(x)) }

\* The three axes are active: one program passes them all, and each of the
\* other three fails another axis.
C17_Witness ==
  /\ showSavedOnly /\ selectedCategory = "food" /\ selectedArea = "Alameda County"
  /\ browseFavorites = <<"c", "b">>
  /\ Len(browsePrograms) = 4
  /\ filteredPrograms = <<ProgramC>>

\* C18: the derived list holds the filtered programs, none lost and none
\* twice, in the order of the sort key; programs with equal keys are in
\* their input order; the programs state is as it was loaded; and the list
\* is the one the derivation gives for the current inputs.
C18_SortIsStablePermutation ==
  LET input == Filtered(browsePrograms, browseFavorites, CurrentSettings)
      output == filteredPrograms
  IN /\ Len(output) = Len(input)
     /\ \A x \in Members(input) \cup Members(output) :
          Occurrences(output, x) = Occurrences(input, x)
     /\ \A i, j \in 1..Len(output) :
          i < j => /\ Compare(output[i], output[j], sortBy) <= 0
                   /\ Compare(output[i], output[j], sortBy) = 0
                      => PositionIn(input, output[i]) < PositionIn(input, output[j])
     /\ browsePrograms \in BrowseCatalogs \cup {<<>>}
     /\ output = FilteredPrograms(browsePrograms, browseFavorites, CurrentSettings)

\* All four programs are listed by name, descending: the two programs of
\* the same name come first, in the order they were loaded in.
C18_Witness ==
  /\ sortBy = "name-desc" /\ ~FilterCopies(CurrentSettings)
  /\ browsePrograms = <<ProgramC, ProgramD, ProgramB, ProgramA>>
  /\ filteredPrograms = <<ProgramC, ProgramA, ProgramB, ProgramD>>

(***************************************************************************)
(* Properties of clearCache.                                               *)
(***************************************************************************)
\* clearCache returns in this step.
ClearsNow == clearCall.pc = "removing" /\ clearCall'.pc = "returned"

\* The read of the cache made by call c returns in this step and ends the
\* call.
CacheAnswers(c) == calls[c].pc \in {"cacheRead", "fallback"} /\ calls'[c].pc = "done"

\* C19: when clearCache returns, none of the five payload entries is left
\* and the persisted favorites are as they were; a fetch that reads the
\* cache while its entry is still removed is not answered from the cache.
C19_ClearCacheKeepsFavorites ==
  [][/\ ClearsNow
        => /\ \A k \in PayloadKeys : storage'[k] = NoItem
           /\ storage'[CACHE_KEYS.FAVORITES] = storage[CACHE_KEYS.FAVORITES]
     /\ \A c \in Calls :
          (CacheAnswers(c) /\ storage[calls[c].key] = NoItem)
          => calls'[c].via \notin {"fresh", "stale"}]_vars

\* The cache of an earlier session was cleared, its two favorites are still
\* there, and a getPrograms call made afterwards found no entry: its
\* request failed and it threw for want of a cached payload.
C19_Witness ==
  /\ clearCall.pc = "returned"
  /\ GetFavorites(storage) = <<"a", "b">>
  /\ \A k \in PayloadKeys : storage[k] = NoItem
  /\ calls["c1"].pc = "done" /\ calls["c1"].key = CACHE_KEYS.PROGRAMS
  /\ ~calls["c1"].freshAtCall /\ calls["c1"].netReqs = 1
  /\ calls["c1"].result = Threw

(***************************************************************************)
(* Properties of concurrent store mutations.                               *)
(***************************************************************************)
\* The setItem of caller p's addFavorite call lands in this step.
AddWritesNow(p) ==
  /\ favCalls[p].pc = "write" /\ favCalls[p].op = "add"
  /\ favCalls'[p].wrote = 1

\* C20: addFavorite reads the whole list and writes the whole list back
\* without a lock. A call whose write lands while the list is still the one
\* it read (no other call wrote in between, as when calls run one after the
\* other) keeps every id of the list and adds its own; a call that read
\* before another call's write replaces that write (the witness).
C20_SequentialAddsKeepBoth ==
  [][\A p \in StoreClients :
       (AddWritesNow(p) /\ favCalls[p].read = Persisted)
       => /\ \A i \in 1..Len(Persisted) : Includes(Persisted', Persisted[i])
          /\ Includes(Persisted', favCalls[p].id)
          /\ Len(Persisted') = Len(Persisted) + 1]_vars

\* Two addFavorite calls for distinct ids both read the empty list; the
\* write of "a" landed, then the write of "b": only "b" is persisted.
C20_Witness ==
  /\ favCalls["p1"].pc = "returned" /\ favCalls["p1"].op = "add"
  /\ favCalls["p1"].id = "a" /\ favCalls["p1"].wrote = 1
  /\ favCalls["p2"].pc = "returned" /\ favCalls["p2"].op = "add"
  /\ favCalls["p2"].id = "b" /\ favCalls["p2"].wrote = 1
  /\ Persisted = <<"b">>

(***************************************************************************)
(* Properties of concurrent fetches.                                       *)
(***************************************************************************)
\* The entry call c built from its response.
EntryBuilt(c) == CachedData(calls[c].data, calls[c].ts)

\* C21: fetchWithCache calls are not coalesced. Every call whose cache check
\* finds no fresh entry issues a network request of its own, whatever other
\* calls for the key are in flight; every call that got a response writes
\* the cache; and each write replaces the stored entry by the whole entry
\* of the writing call, so the entry is that of the last write and never a
\* mix of two.
C21_ConcurrentFetchesLastWriteWins ==
  [][/\ \A c \in Calls :
          /\ (Leaves(c, "cacheRead") /\ ~HasFresh(storage, calls[c].key, now))
             => calls'[c].pc = "net" /\ calls'[c].netReqs = 1
          /\ Leaves(c, "save")
             => /\ calls'[c].writes = 1
                /\ storage'[calls[c].key] = JSONstringify(EntryBuilt(c))
     /\ \A k \in StorageKeys :
          storage'[k] # storage[k]
          => \E c \in Calls :
               Leaves(c, "save") /\ calls[c].key = k
               /\ JSONparse(storage'[k]) = EntryBuilt(c)]_vars

\* Two calls were made while no entry existed; each issued one request and
\* wrote once, with different payloads at different times; the stored entry
\* is the second call's, whose payload was received first.
C21_Witness ==
  /\ \A c \in Calls :
       /\ calls[c].pc = "done" /\ calls[c].via = "network"
       /\ ~calls[c].force /\ ~calls[c].freshAtCall
       /\ calls[c].netReqs = 1 /\ calls[c].writes = 1
  /\ calls["c1"].data # calls["c2"].data
  /\ calls["c2"].ts < calls["c1"].ts
  /\ JSONparse(storage[CACHE_KEYS.PROGRAMS]) = EntryBuilt("c2")

(***************************************************************************)
(* Properties of the SearchScreen's debounce.                              *)
(***************************************************************************)
\* A debounce timer fires in this step.
TimerFires == Len(debounce') < Len(debounce) /\ searchQuery' = searchQuery

\* C22: at most one debounce timer is pending, a change of the text leaving
\* only the timer set for the new text; a timer that fires issues a search
\* request only for the trimmed text as it still is, and only if that has 2
\* characters or more; and no request, by whatever path, is issued for a
\* query of fewer than 2 characters.
C22_DebouncedSearch ==
  [][/\ Len(debounce') <= 1
     /\ searchQuery' # searchQuery => debounce' = <<Trim(searchQuery')>>
     /\ TimerFires
        => /\ debounce = <<Trim(searchQuery)>>
           /\ (\E r \in RequestIds : Issued(r)) <=> Len(Trim(searchQuery)) >= 2
           /\ \A r \in RequestIds :
                Issued(r) => requests'[r].query = Trim(searchQuery)
     /\ \A r \in RequestIds : Issued(r) => Len(requests'[r].query) >= 2]_vars

\* The text is "fo" and its timer has fired: it issued the one request made
\* so far, for "fo", to be saved to the recent searches.
C22_Witness ==
  /\ searchQuery = <<"f", "o">> /\ debounce = <<>>
  /\ requestIdRef = 1 /\ requests[1].query = <<"f", "o">>
  /\ requests[1].saveToRecent /\ requests[2].pc = "none"

(***************************************************************************)
(* Properties of the storage failures on the read paths.                   *)
(***************************************************************************)
\* Call c logs a storage error in this step.
LogsNow(c) == Len(calls'[c].logged) > Len(calls[c].logged)

\* Getter g logs a storage error in this step.
GetterLogsNow(g) == Len(getCalls'[g].logged) > Len(getCalls[g].logged)

\* C23: a local-storage failure on a read path never reaches the caller. A
\* failing cache read is treated as an absent entry (the first read sends the
\* call to the network, the fallback read rethrows the network's error), a
\* failing cache write after a successful fetch still returns the fetched
\* payload, getFavorites returns the empty list and getCacheSize returns 0.
C23_StorageFailuresNotSurfaced ==
  [][/\ \A c \in Calls :
          /\ (Leaves(c, "cacheRead") /\ LogsNow(c))
             => /\ calls'[c].pc = "net"
                /\ calls'[c].netReqs = calls[c].netReqs + 1
                /\ calls'[c].result = Null
          /\ (Leaves(c, "fallback") /\ LogsNow(c))
             => /\ calls'[c].pc = "done"
                /\ calls'[c].result = Threw
                /\ calls'[c].err = calls[c].err
          /\ (Leaves(c, "save") /\ LogsNow(c))
             => /\ calls'[c].pc = "done"
                /\ calls'[c].result = calls[c].data
                /\ calls'[c].via = "network"
                /\ storage' = storage
          /\ calls'[c].result = Threw => calls'[c].err \in FailureKinds
     /\ GetterLogsNow("getFavorites")
        => /\ getCalls'["getFavorites"].pc = "returned"
           /\ getCalls'["getFavorites"].favorites = <<>>
     /\ GetterLogsNow("getCacheSize")
        => /\ getCalls'["getCacheSize"].pc = "returned"
           /\ getCalls'["getCacheSize"].size = 0
     /\ \A g \in Getters : getCalls'[g].pc # "threw"]_vars

\* A call whose cache read failed over a fresh entry and whose cache write
\* failed returned the fetched payload; getFavorites returned [] and
\* getCacheSize 0 over a storage that holds favorites.
C23_Witness ==
  /\ calls["c1"].pc = "done"
  /\ calls["c1"].freshAtCall
  /\ calls["c1"].logged = <<"Cache read error", "Cache write error">>
  /\ calls["c1"].result = "body2"
  /\ calls["c1"].writes = 0
  /\ GetFavorites(storage) # <<>>
  /\ getCalls["getFavorites"].pc = "returned"
  /\ getCalls["getFavorites"].logged # <<>>
  /\ getCalls["getFavorites"].favorites = <<>>
  /\ getCalls["getCacheSize"].pc = "returned"
  /\ getCalls["getCacheSize"].logged # <<>>
  /\ getCalls["getCacheSize"].size = 0

(***************************************************************************)
(* Properties of the recent-search chips.                                  *)
(***************************************************************************)
\* Nothing of the SearchScreen is pending: no timer, no request, no load.
SearchQuiet ==
  /\ debounce = <<>>
  /\ recentLoads = 0
  /\ \A r \in RequestIds : requests[r].pc \in {"none", "done"}

\* The requests issued by chip presses (performSearch(query, false)).
ChipRequests == {r \in RequestIds : requests[r].pc # "none" /\ ~requests[r].saveToRecent}

\* C24: pressing a recent-search chip runs a search for its query without
\* saving it again: once everything one press triggered has completed, the
\* persisted recent list, order included, is what it was before the press.
C24_ChipPressKeepsRecents ==
  (SearchQuiet /\ Cardinality(ChipRequests) = 1)
  => /\ \A r \in ChipRequests : requests[r].pc = "done"
     /\ PersistedRecents = ChipQueries

(***************************************************************************)
(* Properties of the result list's resets.                                 *)
(***************************************************************************)
\* C25: after the results were reset, by clearSearch or by the debounce
\* path of a query shorter than 2 characters, the response of a request
\* still in flight is not applied: while no newer request has been issued,
\* the list stays empty and searched stays false.
C25_ResetDropsResponsesInFlight ==
  [][\A r \in RequestIds :
       (Responds(r) /\ requests[r].reset /\ r = requestIdRef)
       => (programs' = <<>> /\ searched' = FALSE)]_vars

(***************************************************************************)
(* Properties of the loading indicator.                                    *)
(***************************************************************************)
\* No performSearch call is in flight: each has run to its finally block.
NoneInFlight == \A r \in RequestIds : requests[r].pc \in {"none", "done"}

\* C29: the loading indicator is never left on: whenever every performSearch
\* call has run to its finally block, loading is false, whatever the number
\* of overlapping requests, their order of completion and their outcomes.
C29_LoadingNeverLeftOn == NoneInFlight => ~loading

\* Two overlapping requests completed in the reverse order of their issue,
\* the first by throwing, and loading is off.
C29_Witness ==
  /\ NoneInFlight
  /\ completions = <<2, 1>>
  /\ requests[1].outcome = "rejected"
  /\ requests[2].outcome = "resolved"
  /\ ~loading

(***************************************************************************)
(* Properties of BrowseScreen's shown favorites.                           *)
(***************************************************************************)
\* No handleToggleFavorite invocation is in flight.
NoToggleInFlight == \A h \in Handlers : toggles[h].pc \in {"idle", "done"}

\* C26: on BrowseScreen, whenever no toggle is in flight and no persistence
\* call has failed, the programs shown as favorited are exactly the persisted
\* favorites, for every interleaving of the toggles, a second toggle of the
\* same program before the first completed or was rendered included.
C26_BrowseShowsPersistedFavorites ==
  (NoToggleInFlight /\ \A h \in Handlers : ~toggles[h].failed)
  => Members(browseFavorites) = Members(Persisted)

(***************************************************************************)
(* Properties of addFavorite over a failing storage.                       *)
(***************************************************************************)
\* C27: addFavorite never removes a favorite: every id of the persisted list
\* before the call is still in it after the call, also when the read inside
\* the call fails or finds unparseable data and the following write lands.
\* With addFavorite the only operation and one caller, no step of a call may
\* drop an id.
C27_AddFavoriteKeepsFavorites ==
  [][Members(Persisted) \subseteq Members(GetFavorites(storage'))]_vars

(***************************************************************************)
(* Properties of clearCache's frame.                                       *)
(***************************************************************************)
\* C28: clearCache removes exactly the keys of CACHE_KEYS other than the
\* favorites key: the five payloads, the recent searches and the filter
\* presets, which read as empty afterwards; every other key, the theme mode
\* and the crash-reporting preference among them, keeps its item.
C28_ClearCacheRemovesExactlyCacheKeys ==
  [][ClearsNow
     => /\ \A k \in StorageKeys :
             storage'[k] =
               IF k \in PayloadKeys
                        \cup {CACHE_KEYS.RECENT_SEARCHES, CACHE_KEYS.FILTER_PRESETS}
               THEN NoItem ELSE storage[k]
        /\ GetRecentSearches(storage') = <<>>
        /\ GetFilterPresets(storage') = <<>>]_vars

\* The storage of an earlier session was cleared: payloads, recent searches
\* and presets are gone; the favorites, the theme mode and the
\* crash-reporting preference are still there.
C28_Witness ==
  /\ clearCall.pc = "returned"
  /\ \A k \in PayloadKeys : storage[k] = NoItem
  /\ storage[CACHE_KEYS.RECENT_SEARCHES] = NoItem
  /\ storage[CACHE_KEYS.FILTER_PRESETS] = NoItem
  /\ GetFavorites(storage) = <<"a", "b">>
  /\ storage[THEME_STORAGE_KEY] = PlainItem("dark")
  /\ storage[CRASH_REPORTING_KEY] = PlainItem("false")

(***************************************************************************)
(* Properties of the preset ids.                                           *)
(***************************************************************************)
\* C30: the presets of the persisted collection have pairwise distinct ids
\* in every reachable state, two saves within the same millisecond included
\* (the id is Date.now().toString()), so that deleteFilterPreset(id) removes
\* at most one preset.
C30_PresetIdsDistinct ==
  \A i, j \in 1..Len(PersistedPresets) :
    i # j => PersistedPresets[i].id # PersistedPresets[j].id
====
